---- MODULE Spec2Model ----
(***************************************************************************)
(* A model of the photo-story backend: chapter generation                  *)
(* (app/services/chapter_generator.py), story-arc detection                *)
(* (app/services/story_arc_detector.py, ai_story_arc_detector.py) and      *)
(* temporal pattern detection (app/routers/patterns.py).  The scenarios    *)
(* that interleave invocations take the calls apart at their commits.      *)
(*                                                                         *)
(* One user owns every row.  A datetime is the tuple <<year, month, day,   *)
(* hour>>; NULL is the empty tuple.  A nullable integer column is <<v>> or *)
(* NULL.  Image ids are the positions in the sequence `images`.            *)
(***************************************************************************)
EXTENDS Integers, Sequences, FiniteSets, TLC

VARIABLES
    birth_date,       \* User.birth_date: <<y, m, d>> or NULL
    images,           \* the images table, in id order
    lifeEvents,       \* the life_events table: id -> event_date, in id order
    lifeEventImages,  \* the life_event_images table: set of <<event id, image id>>
    chapters,         \* the chapters table: set of rows
    chapterPhotos,    \* history: <<chapter id, the chapter_photos list it was built from>>
    nextChapterId,    \* the chapters id sequence
    stories,          \* the stories table: set of rows
    storyImages,      \* the story_images table: set of rows
    nextStoryId,      \* the stories id sequence
    patterns,         \* the patterns table: set of rows
    patternImages,    \* the pattern_images table: set of <<pattern id, image id>>
    nextPatternId,    \* the patterns id sequence
    clusters,         \* the value returned by the last temporal-clusterer call
    ret,              \* the value returned (or the exception raised) by the last call
    lastCall,         \* history: the last call and its arguments
    running,          \* the invocations in flight: caller -> position and locals
    categoryTable     \* the categories table: set of names

vars == <<birth_date, images, lifeEvents, lifeEventImages, chapters, chapterPhotos,
          nextChapterId, stories, storyImages, nextStoryId, patterns, patternImages,
          nextPatternId, clusters, ret, lastCall, running, categoryTable>>

NULL == <<>>

(***************************************************************************)
(* Bounds of the model.                                                    *)
(***************************************************************************)
MaxChapterPhotos == 3   \* photos uploaded in the chapter-generation scenarios
MaxClusterPhotos == 3   \* photos handed to the temporal clusterers
MaxChapterId == 4       \* generate_chapters_for_user runs while the next chapter id is at most this

(***************************************************************************)
(* Sequences and sets.                                                     *)
(***************************************************************************)
Range(s) == {s[i] : i \in DOMAIN s}

Min2(a, b) == IF a <= b THEN a ELSE b

SetMin(S) == CHOOSE x \in S : \A y \in S : x <= y

SetMax(S) == CHOOSE x \in S : \A y \in S : y <= x

RECURSIVE SortInts(_)
SortInts(S) ==
    IF S = {} THEN <<>> ELSE <<SetMin(S)>> \o SortInts(S \ {SetMin(S)})

(***************************************************************************)
(* datetime: the proleptic Gregorian calendar of Python's datetime.        *)
(***************************************************************************)
DT(y, m, d, h) == <<y, m, d, h>>

Year(t) == t[1]

Month(t) == t[2]

Day(t) == t[3]

\* date.toordinal up to a constant: days since 1970-01-01
DayNum(y, m, d) ==
    LET yy  == IF m <= 2 THEN y - 1 ELSE y
        era == yy \div 400
        yoe == yy - era * 400
        mp  == IF m > 2 THEN m - 3 ELSE m + 9
        doy == (153 * mp + 2) \div 5 + d - 1
        doe == yoe * 365 + yoe \div 4 - yoe \div 100 + doy
    IN  era * 146097 + doe - 719468

\* a datetime as hours since the epoch: the order of datetimes
Stamp(t) == DayNum(t[1], t[2], t[3]) * 24 + t[4]

\* (a - b).days: timedelta.days is the floor of the difference in days
DaysBetween(a, b) == (Stamp(a) - Stamp(b)) \div 24

(***************************************************************************)
(* The images table.                                                       *)
(***************************************************************************)
ImageIds == DOMAIN images

Image(capture, upload, loc, cats, emos) ==
    [capture_date |-> capture, upload_date |-> upload, location |-> loc,
     categories |-> cats, emotions |-> emos]

\* the sort with the latest capture first
RECURSIVE SortByCapture_Descending(_, _)
SortByCapture_Descending(S, imgs) ==
    IF S = {} THEN <<>>
    ELSE LET first == CHOOSE x \in S : \A y \in S :
                         \/ Stamp(imgs[x].capture_date) > Stamp(imgs[y].capture_date)
                         \/ /\ Stamp(imgs[x].capture_date) = Stamp(imgs[y].capture_date)
                            /\ x <= y
         IN  <<first>> \o SortByCapture_Descending(S \ {first}, imgs)

\* sorted(photos, key=lambda p: p.capture_date) of a list in id order: a stable sort
RECURSIVE SortByCapture(_, _)
SortByCapture(S, imgs) ==
    IF S = {} THEN <<>>
    ELSE LET first == CHOOSE x \in S : \A y \in S :
                         \/ Stamp(imgs[x].capture_date) < Stamp(imgs[y].capture_date)
                         \/ /\ Stamp(imgs[x].capture_date) = Stamp(imgs[y].capture_date)
                            /\ x <= y
         IN  <<first>> \o SortByCapture(S \ {first}, imgs)

\* Photos arrive before anything is derived from them: a new photo after
\* chapters, arcs or patterns exist calls for a regeneration.
NothingDerived == chapters = {} /\ stories = {} /\ patterns = {}

\* An image row is created by the ingest pipeline (out of scope of the core).
UploadPhoto(img, max) ==
    /\ Len(images) < max
    /\ NothingDerived
    /\ images' = Append(images, img)
    /\ lastCall' = <<"upload", FALSE>>
    /\ ret' = <<"ok", <<Len(images) + 1>>>>
    /\ UNCHANGED <<running, categoryTable>>
    /\ UNCHANGED <<birth_date, lifeEvents, lifeEventImages, chapters, chapterPhotos,
                   nextChapterId, stories, storyImages, nextStoryId, patterns,
                   patternImages, nextPatternId, clusters>>

(***************************************************************************)
(* The temporal clusterers: _cluster_by_time of ai_story_arc_detector.py   *)
(* and cluster_photos_by_temporal_bursts of story_arc_detector.py.  A      *)
(* cluster is the list of its image ids in capture order.                  *)
(***************************************************************************)
\* the flush after the loop left out
Emit_DropsLast(cluster, min_size, last) ==
    IF Len(cluster) >= min_size /\ ~last THEN <<cluster>> ELSE <<>>

\* `if len(current_cluster) >= min_cluster_size: clusters.append(current_cluster)`;
\* `last` tells the flush after the loop from the close inside it
Emit(cluster, min_size, last) ==
    IF Len(cluster) >= min_size THEN <<cluster>> ELSE <<>>

\* the gap test with < for <=
SameBurst_Strict(cur, prev, max_gap) == DaysBetween(cur, prev) < max_gap

\* `days_gap = (current.capture_date - previous.capture_date).days`,
\* `if days_gap <= max_gap_days`
SameBurst(cur, prev, max_gap) == DaysBetween(cur, prev) <= max_gap

\* the loop over sorted_photos[1:], and the flush of the last cluster
RECURSIVE ClusterFrom(_, _, _, _, _, _)
ClusterFrom(sorted, i, current, max_gap, min_size, imgs) ==
    IF i > Len(sorted) THEN Emit(current, min_size, TRUE)
    ELSE IF SameBurst(imgs[sorted[i]].capture_date, imgs[sorted[i - 1]].capture_date,
                      max_gap)
         THEN ClusterFrom(sorted, i + 1, Append(current, sorted[i]), max_gap,
                          min_size, imgs)
         ELSE Emit(current, min_size, FALSE)
                  \o ClusterFrom(sorted, i + 1, <<sorted[i]>>, max_gap, min_size, imgs)

\* _cluster_by_time(photos, max_gap_days, min_cluster_size)
cluster_by_time(photos, max_gap_days, min_cluster_size, imgs) ==
    IF photos = {} THEN <<>>
    ELSE LET sorted == SortByCapture(photos, imgs)
         IN  ClusterFrom(sorted, 2, <<sorted[1]>>, max_gap_days, min_cluster_size, imgs)

\* cluster_photos_by_temporal_bursts(photos, min_gap_days): clusters of 2 and more
BurstMinSize == 2

cluster_photos_by_temporal_bursts(photos, min_gap_days, imgs) ==
    IF photos = {} THEN <<>>
    ELSE LET sorted == SortByCapture(photos, imgs)
         IN  ClusterFrom(sorted, 2, <<sorted[1]>>, min_gap_days, BurstMinSize, imgs)

\* a call of one of the two clusterers on all photos
ClusterCall(fn, gap, min) ==
    /\ clusters' = [fn |-> fn, gap |-> gap, min |-> min,
                    out |-> IF fn = "_cluster_by_time"
                            THEN cluster_by_time(ImageIds, gap, min, images)
                            ELSE cluster_photos_by_temporal_bursts(ImageIds, gap, images)]
    /\ lastCall' = <<"cluster", FALSE>>
    /\ ret' = <<"ok", <<>>>>
    /\ UNCHANGED <<running, categoryTable>>
    /\ UNCHANGED <<birth_date, images, lifeEvents, lifeEventImages, chapters,
                   chapterPhotos, nextChapterId, stories, storyImages, nextStoryId,
                   patterns, patternImages, nextPatternId>>

(***************************************************************************)
(* Chapter generation: app/services/chapter_generator.py                   *)
(***************************************************************************)
LIFE_PHASES ==
    << <<0, 5>>, <<6, 12>>, <<13, 17>>, <<18, 22>>, <<23, 28>>, <<29, 35>>,
       <<36, 45>>, <<46, 55>>, <<56, 65>>, <<66, 100>> >>

calculate_age(birth, at) ==
    Year(at) - Year(birth)
        - (IF \/ Month(at) < Month(birth)
              \/ Month(at) = Month(birth) /\ Day(at) < Day(birth)
           THEN 1 ELSE 0)

\* the loop of generate_age_based_chapters that finds the band of an age;
\* NULL when no band of the table holds it
PhaseKey(age) ==
    LET hits == {i \in DOMAIN LIFE_PHASES :
                    LIFE_PHASES[i][1] <= age /\ age <= LIFE_PHASES[i][2]}
    IN  IF hits = {} THEN NULL ELSE LIFE_PHASES[SetMin(hits)]

\* the emotion names with the highest row count among the photos; the query
\* orders by count only, so any of them may come first
DominantCandidates(ids, imgs) ==
    LET names == UNION {{e.name : e \in imgs[i].emotions} : i \in ids}
        cnt(n) == Cardinality({i \in ids : \E e \in imgs[i].emotions : e.name = n})
    IN  {n \in names : \A o \in names : cnt(o) <= cnt(n)}

\* get_dominant_emotion: the first row of the ordered query, <<name>> or NULL;
\* `tie` is the order the database happens to give rows of equal count
get_dominant_emotion(ids, imgs, tie) ==
    LET c == DominantCandidates(ids, imgs)
    IN  IF c = {} THEN NULL
        ELSE <<tie[SetMin({k \in DOMAIN tie : tie[k] \in c})]>>

Chapter(id, type, a1, a2, y1, y2, photos, emo, seq) ==
    [id |-> id, chapter_type |-> type, age_start |-> a1, age_end |-> a2,
     year_start |-> y1, year_end |-> y2, photo_count |-> Len(photos),
     dominant_emotion |-> emo, sequence_order |-> seq,
     cover_image_id |-> IF Len(photos) > 0 THEN <<photos[1]>> ELSE NULL]

\* generate_age_based_chapters: the pairs <<chapter row, chapter_photos>>;
\* `photos` is the list of ids sorted by capture date, `imgs` the rows as the
\* session holds them.  The bands come out sorted, so the n-th band in the
\* order of its start gets sequence_order n - 1 and the n-th new id.
generate_age_based_chapters(birth, photos, imgs, firstId, tie) ==
    LET ages   == [k \in DOMAIN photos |-> calculate_age(birth, imgs[photos[k]].capture_date)]
        keyOf  == [k \in DOMAIN photos |-> PhaseKey(ages[k])]
        keys   == Range(keyOf) \ {NULL}
        rank(b) == Cardinality({o \in keys : o[1] < b[1]})
        of(b)  == LET ks == {k \in DOMAIN photos : keyOf[k] = b}
                  IN  [j \in 1..Cardinality(ks) |->
                          photos[CHOOSE k \in ks :
                                    Cardinality({o \in ks : o < k}) = j - 1]]
    IN  {LET ps == of(b)
         IN  <<Chapter(firstId + rank(b), "age_based", <<b[1]>>, <<b[2]>>,
                       Year(birth) + b[1], Year(birth) + b[2], ps,
                       get_dominant_emotion(Range(ps), imgs, tie), rank(b)),
               ps>> : b \in keys}

\* merge_adjacent_groups over the sorted keys: the list of <<start, end>>
RECURSIVE MergeFrom(_, _, _, _, _)
MergeFrom(keys, i, cur_start, cur_end, max_gap) ==
    IF i > Len(keys) THEN << <<cur_start, cur_end>> >>
    ELSE IF keys[i] - keys[i - 1] <= max_gap
         THEN MergeFrom(keys, i + 1, cur_start, keys[i], max_gap)
         ELSE << <<cur_start, cur_end>> >>
                  \o MergeFrom(keys, i + 1, keys[i], keys[i], max_gap)

\* every key a group of its own
merge_adjacent_groups_NoMerge(keySet, max_gap) ==
    [k \in DOMAIN SortInts(keySet) |-> <<SortInts(keySet)[k], SortInts(keySet)[k]>>]

merge_adjacent_groups(keySet, max_gap) ==
    IF keySet = {} THEN <<>>
    ELSE LET keys == SortInts(keySet)
         IN  MergeFrom(keys, 2, keys[1], keys[1], max_gap)

\* generate_year_based_chapters: the pairs <<chapter row, chapter_photos>>
generate_year_based_chapters(photos, imgs, firstId, tie) ==
    LET years  == [k \in DOMAIN photos |-> Year(imgs[photos[k]].capture_date)]
        merged == merge_adjacent_groups(Range(years), 1)
        of(r)  == LET ks == {k \in DOMAIN photos : r[1] <= years[k] /\ years[k] <= r[2]}
                  IN  [j \in 1..Cardinality(ks) |->
                          photos[CHOOSE k \in ks :
                                    Cardinality({o \in ks : o < k}) = j - 1]]
    IN  {LET r  == merged[n]
             ps == of(r)
         IN  <<Chapter(firstId + n - 1, "year_based", NULL, NULL, r[1], r[2], ps,
                       get_dominant_emotion(Range(ps), imgs, tie), n - 1),
               ps>> : n \in DOMAIN merged}

\* the force flag read the wrong way round
ReturnsExisting_Inverted(existing, force) == existing > 0 /\ force

\* `if existing_chapters > 0 and not force_regenerate`: return what is stored
ReturnsExisting(existing, force) == existing > 0 /\ ~force

\* the delete left out
AfterDelete_NoDelete(chs, force) == chs

\* `if force_regenerate and existing_chapters > 0`: the rows that survive the delete
AfterDelete(chs, force) == IF force /\ chs # {} THEN {} ELSE chs

\* `if not photo.capture_date and photo.upload_date`: the rows as the session holds
\* them after the fallback loop
WithUploadFallback(imgs) ==
    [i \in DOMAIN imgs |->
        IF imgs[i].capture_date = NULL /\ imgs[i].upload_date # NULL
        THEN [imgs[i] EXCEPT !.capture_date = imgs[i].upload_date]
        ELSE imgs[i]]

\* query(Chapter).order_by(Chapter.sequence_order): chapter ids in that order
RECURSIVE OrderBySequence(_)
OrderBySequence(chs) ==
    IF chs = {} THEN <<>>
    ELSE LET c == CHOOSE x \in chs : \A y \in chs :
                     \/ x.sequence_order < y.sequence_order
                     \/ x.sequence_order = y.sequence_order /\ x.id <= y.id
         IN  <<c.id>> \o OrderBySequence(chs \ {c})

\* what a run leaves behind, for comparing reruns: the number of chapter rows
\* and the photo count of each band or year range
ChapterSummary(chs) ==
    <<Cardinality(chs),
      {<<c.age_start, c.age_end, c.year_start, c.year_end, c.photo_count>> : c \in chs}>>

\* rows removed by the foreign keys ON DELETE CASCADE of stories and story_images
StoriesOf(chs) == {s \in stories : \E c \in chs : s.chapter_id = c.id}

\* what generate_chapters_for_user returns and leaves in the database
GenerateOutcome(force, tie) ==
    LET existing == Cardinality(chapters)
        kept     == AfterDelete(chapters, force)
        gone     == StoriesOf(chapters \ kept)
        session  == WithUploadFallback(images)
        dated    == {i \in DOMAIN session : session[i].capture_date # NULL}
        photos   == SortByCapture(dated, session)
        built    == IF birth_date # NULL
                    THEN generate_age_based_chapters(birth_date, photos, session,
                                                     nextChapterId, tie)
                    ELSE generate_year_based_chapters(photos, session,
                                                      nextChapterId, tie)
        now      == [returned |-> OrderBySequence(chapters), images |-> images,
                     chapters |-> chapters, chapterPhotos |-> chapterPhotos,
                     nextChapterId |-> nextChapterId, stories |-> stories,
                     storyImages |-> storyImages]
        cleared  == [now EXCEPT
                       !.returned = <<>>,
                       !.chapters = kept,
                       !.chapterPhotos = {x \in chapterPhotos : \E c \in kept : c.id = x[1]},
                       !.stories = stories \ gone,
                       !.storyImages = {si \in storyImages :
                                           \A g \in gone : si.story_id # g.id}]
    IN  IF ReturnsExisting(existing, force) THEN now
        ELSE IF dated = {}
        THEN \* no photos, or none with a date: return [] before the commit
             cleared
        ELSE [cleared EXCEPT
                !.returned = [n \in 1..Cardinality(built) |-> nextChapterId + n - 1],
                !.chapters = kept \cup {x[1] : x \in built},
                !.chapterPhotos = @ \cup {<<x[1].id, x[2]>> : x \in built},
                !.images = session,
                !.nextChapterId = nextChapterId + Cardinality(built)]

generate_chapters_for_user(force, tie) ==
    /\ lastCall' = <<"generate", force>>
    /\ UNCHANGED <<running, categoryTable>>
    /\ UNCHANGED <<birth_date, lifeEvents, lifeEventImages, patterns,
                   patternImages, nextPatternId, nextStoryId, clusters>>
    /\ \E o \in {GenerateOutcome(force, tie)} :
          /\ ret' = <<"ok", o.returned>>
          /\ images' = o.images
          /\ chapters' = o.chapters
          /\ chapterPhotos' = o.chapterPhotos
          /\ nextChapterId' = o.nextChapterId
          /\ stories' = o.stories
          /\ storyImages' = o.storyImages

\* the photos detect_story_arcs_for_chapter loads for a chapter: the dated photos
\* between 1 January of year_start and 31 December 23:59:59 of year_end
ChapterQueryPhotos(c, imgs) ==
    {i \in DOMAIN imgs :
        /\ imgs[i].capture_date # NULL
        /\ Stamp(imgs[i].capture_date) >= Stamp(DT(c.year_start, 1, 1, 0))
        /\ Stamp(imgs[i].capture_date) <= Stamp(DT(c.year_end, 12, 31, 23))}

(***************************************************************************)
(* Life events: app/routers/life_events.py                                 *)
(***************************************************************************)
\* create_life_event: the event row, then a link for every id of image_ids
\* that names an image
create_life_event(event_type, event_date, image_ids, max) ==
    /\ Len(lifeEvents) < max
    /\ NothingDerived
    /\ lifeEvents' = Append(lifeEvents, [event_type |-> event_type,
                                         event_date |-> event_date])
    /\ lifeEventImages' = lifeEventImages
            \cup {<<Len(lifeEvents) + 1, i>> : i \in image_ids \cap ImageIds}
    /\ lastCall' = <<"create_life_event", FALSE>>
    /\ ret' = <<"ok", <<Len(lifeEvents) + 1>>>>
    /\ UNCHANGED <<running, categoryTable>>
    /\ UNCHANGED <<birth_date, images, chapters, chapterPhotos, nextChapterId, stories,
                   storyImages, nextStoryId, patterns, patternImages, nextPatternId,
                   clusters>>

(***************************************************************************)
(* Story-arc detection: app/services/story_arc_detector.py and             *)
(* app/services/ai_story_arc_detector.py                                   *)
(***************************************************************************)
MonthNames ==
    <<"January", "February", "March", "April", "May", "June", "July", "August",
      "September", "October", "November", "December">>

\* capture_date.strftime('%B')
MonthName(t) == MonthNames[Month(t)]

\* story_metadata; a key a source does not write is NULL or empty
Metadata(life_event_id, photo_ids, cats, emos) ==
    [life_event_id |-> life_event_id, photo_ids |-> photo_ids, categories |-> cats,
     emotions |-> emos]

Story(chapter_id, title, story_type, arc_type, start, end, ai, count, source, metadata, seq) ==
    [chapter_id |-> chapter_id, title |-> title, story_type |-> story_type,
     arc_type |-> arc_type, start_date |-> start, end_date |-> end,
     is_ai_detected |-> ai, photo_count |-> count, generation_source |-> source,
     story_metadata |-> metadata, sequence_order |-> seq]

\* the window of a chapter: 1 January of year_start to 31 December 23:59:59 of year_end
InChapterWindow(t, c) ==
    /\ t # NULL
    /\ Stamp(t) >= Stamp(DT(c.year_start, 1, 1, 0))
    /\ Stamp(t) <= Stamp(DT(c.year_end, 12, 31, 23))

\* the photos linked to a life event
EventPhotos(e) == {i \in ImageIds : <<e, i>> \in lifeEventImages}

arc_type_mapping(event_type) ==
    CASE event_type \in {"wedding", "birth", "graduation"} -> "event"
      [] event_type = "move" -> "milestone"
      [] event_type = "vacation" -> "trip"
      [] event_type \in {"birthday", "anniversary"} -> "tradition"
      [] OTHER -> "event"

\* detect_life_event_arcs: one arc for every life event in the chapter's window
\* that has linked photos, in id order
detect_life_event_arcs(c) ==
    LET evs == SortInts({e \in DOMAIN lifeEvents :
                            /\ InChapterWindow(lifeEvents[e].event_date, c)
                            /\ EventPhotos(e) # {}})
    IN  [k \in DOMAIN evs |->
            LET ev == lifeEvents[evs[k]]
            IN  Story(c.id, <<"life event", ev.event_type>>, ev.event_type,
                      arc_type_mapping(ev.event_type), ev.event_date, ev.event_date,
                      FALSE, Cardinality(EventPhotos(evs[k])), "life_event",
                      Metadata(<<evs[k]>>, <<>>, {}, {}), k - 1)]

\* detect_trip_arcs.  Image.location is a Location row or None, and the filter
\* `p.location and p.location.get('latitude')` calls .get on the row, which a
\* Location does not have: a photo with a location raises AttributeError, and
\* without one gps_photos is empty and the function returns [].
detect_trip_arcs(photos, imgs) ==
    IF \E k \in DOMAIN photos : imgs[photos[k]].location
    THEN <<"raise", <<>>>>
    ELSE <<"ok", <<>>>>

\* the rows of an aggregate query, grouped by name and ordered by count
\* descending, cut at `limit`: the names kept.  `tie` is the order in which the
\* database returns names of equal count.
TopNames(names, cnt, limit, tie) ==
    LET pos(n) == CHOOSE k \in DOMAIN tie : tie[k] = n
        ahead(n) == {o \in names : \/ cnt[o] > cnt[n]
                                   \/ cnt[o] = cnt[n] /\ pos(o) < pos(n)}
    IN  {n \in names : Cardinality(ahead(n)) < limit}

TopCategoryLimit == 5

TopEmotionLimit == 3

\* the classifications query of _analyze_cluster_with_unified_patterns
ClusterCategories(ids, imgs, tie) ==
    LET names == UNION {imgs[i].categories : i \in ids}
        cnt == [n \in names |-> Cardinality({i \in ids : n \in imgs[i].categories})]
    IN  TopNames(names, cnt, TopCategoryLimit, tie)

\* the emotions query of _analyze_cluster_with_unified_patterns
ClusterEmotions(ids, imgs, tie) ==
    LET names == UNION {{e.name : e \in imgs[i].emotions} : i \in ids}
        cnt == [n \in names |->
                    Cardinality({i \in ids : \E e \in imgs[i].emotions : e.name = n})]
    IN  TopNames(names, cnt, TopEmotionLimit, tie)

\* the category_patterns dict of rule 8, in its order
category_patterns ==
    << <<"food", "Food & Dining", "dining">>,
       <<"restaurant", "Food & Dining", "dining">>,
       <<"pets", "Pet Moments", "pets">>,
       <<"dog", "Pet Moments", "pets">>,
       <<"cat", "Pet Moments", "pets">>,
       <<"animal", "Animal Encounters", "animals">>,
       <<"sports", "Sports & Activities", "activity">>,
       <<"activity", "Sports & Activities", "activity">>,
       <<"art", "Creative Moments", "creative">>,
       <<"music", "Musical Moments", "music">>,
       <<"car", "On the Road", "travel">>,
       <<"vehicle", "On the Road", "travel">> >>

BeachKeywords == {"beach", "ocean", "vacation", "travel", "tropical"}

WeddingKeywords == {"wedding", "bride", "ceremony"}

CelebrationKeywords == {"celebration", "party"}

FamilyKeywords == {"family", "family & friends", "gathering"}

OutdoorKeywords == {"outdoor", "nature", "hiking", "camping"}

HolidayKeywords == {"holiday", "christmas", "festive", "decoration"}

VacationSpanDays == 3

TripSpanDays == 3

\* the beach rule with the vacation branch taken only above the threshold
BeachRule_Above(duration_days) ==
    IF duration_days > VacationSpanDays
    THEN <<<<"Beach Vacation", "">>, "vacation", "trip">>
    ELSE <<<<"Beach Day", "">>, "day_trip", "moments">>

\* rule 1: a vacation from VacationSpanDays days on, else a day trip
BeachRule(duration_days) ==
    IF duration_days >= VacationSpanDays
    THEN <<<<"Beach Vacation", "">>, "vacation", "trip">>
    ELSE <<<<"Beach Day", "">>, "day_trip", "moments">>

\* the span test of rule 7 never passing
LongSpan_Never(duration_days) == FALSE

\* rule 7: `duration_days >= 3`
LongSpan(duration_days) == duration_days >= TripSpanDays

\* _determine_arc_type_unified: <<title, story_type, arc_type>>, or NULL when no
\* rule matches; the names are lower case
determine_arc_type_unified(cats, emos, duration_days, month) ==
    LET hits == {k \in DOMAIN category_patterns : category_patterns[k][1] \in cats}
    IN  IF cats = {} THEN NULL
        ELSE IF cats \cap BeachKeywords # {}
        THEN BeachRule(duration_days)
        ELSE IF cats \cap WeddingKeywords # {}
        THEN <<<<"Wedding Celebration", "">>, "wedding", "event">>
        ELSE IF /\ cats \cap CelebrationKeywords # {}
                /\ emos \cap {"happiness", "happy", "joy"} # {}
        THEN <<<<"Celebration", "">>, "celebration", "event">>
        ELSE IF /\ cats \cap FamilyKeywords # {}
                /\ emos \cap {"happiness", "love", "joy"} # {}
        THEN <<<<"Time with Loved Ones", "">>, "social", "event">>
        ELSE IF /\ cats \cap OutdoorKeywords # {}
                /\ emos \cap {"happiness", "excited"} # {}
        THEN <<<<"Outdoor Adventure", "">>, "adventure", "trip">>
        ELSE IF cats \cap HolidayKeywords # {}
        THEN <<<<"Holiday Celebration", "">>, "holiday", "event">>
        ELSE IF LongSpan(duration_days)
        THEN <<<<"Trip", month>>, "trip", "trip">>
        ELSE IF hits # {}
        THEN <<<<category_patterns[SetMin(hits)][2], "">>,
               category_patterns[SetMin(hits)][3], "moments">>
        ELSE NULL

\* _analyze_cluster_with_unified_patterns: the arc of one burst
analyze_cluster_with_unified_patterns(cluster, c, imgs, tieCats, tieEmos) ==
    LET first == imgs[cluster[1]].capture_date
        last  == imgs[cluster[Len(cluster)]].capture_date
        cats  == ClusterCategories(Range(cluster), imgs, tieCats)
        emos  == ClusterEmotions(Range(cluster), imgs, tieEmos)
        info  == determine_arc_type_unified(cats, emos, DaysBetween(last, first),
                                            MonthName(first))
        arc   == IF info = NULL
                 THEN <<<<"Moments", MonthName(first)>>, "moments", "moments">>
                 ELSE info
    IN  Story(c.id, arc[1], arc[2], arc[3], first, last, TRUE, Len(cluster),
              "unified_ai_pattern", Metadata(NULL, cluster, cats, emos), 0)

UnifiedGapDays == 30

UnifiedMinSize == 3

\* detect_ai_pattern_arcs: one arc for every burst
detect_ai_pattern_arcs(c, photos, imgs, tieCats, tieEmos) ==
    LET bursts == cluster_by_time(Range(photos), UnifiedGapDays, UnifiedMinSize, imgs)
    IN  [k \in DOMAIN bursts |->
            analyze_cluster_with_unified_patterns(bursts[k], c, imgs, tieCats, tieEmos)]

FallbackGapDays == 7

FallbackMinSize == 5

FallbackLimit == 2

\* detect_temporal_arcs: one arc for every burst of FallbackMinSize photos and more
detect_temporal_arcs(c, photos, imgs) ==
    LET all    == cluster_photos_by_temporal_bursts(Range(photos), FallbackGapDays, imgs)
        bursts == SelectSeq(all, LAMBDA b : Len(b) >= FallbackMinSize)
    IN  [k \in DOMAIN bursts |->
            LET b == bursts[k]
                first == imgs[b[1]].capture_date
                last  == imgs[b[Len(b)]].capture_date
            IN  Story(c.id, <<"Photo Moments", MonthName(first)>>, "moments", "event",
                      first, last, FALSE, Len(b), "time_cluster",
                      Metadata(NULL, <<>>, {}, {}), k - 1)]

\* the fallback test with the check of the unified detector's result left out
FallbackRuns_IgnoresUnified(ai_arcs_count, collected) == collected < 2

\* `if ai_arcs_count == 0 and len(all_story_arcs) < 2`
FallbackRuns(ai_arcs_count, collected) == ai_arcs_count = 0 /\ collected < 2

\* all_story_arcs of one pass; `ai_fails` tells that the unified detector raised
\* inside the try block (the import or a query failed)
CollectArcs(c, photos, imgs, ai_fails, tieCats, tieEmos) ==
    LET life == detect_life_event_arcs(c)
        ai   == IF ai_fails THEN <<>>
                ELSE detect_ai_pattern_arcs(c, photos, imgs, tieCats, tieEmos)
        trip == detect_trip_arcs(photos, imgs)[2]
        upto == life \o trip \o ai
        temp == detect_temporal_arcs(c, photos, imgs)
    IN  IF FallbackRuns(Len(ai), Len(upto))
        THEN upto \o SubSeq(temp, 1, Min2(FallbackLimit, Len(temp)))
        ELSE upto

\* every arc re-queried by its date range, whatever its source
ArcPhotos_AllByRange(arc, imgs) ==
    IF arc.start_date # NULL /\ arc.end_date # NULL
    THEN SortByCapture({i \in DOMAIN imgs :
                           /\ imgs[i].capture_date # NULL
                           /\ Stamp(imgs[i].capture_date) >= Stamp(arc.start_date)
                           /\ Stamp(imgs[i].capture_date) <= Stamp(arc.end_date)}, imgs)
    ELSE <<>>

\* the photos attached to a persisted arc, by generation source
ArcPhotos(arc, imgs) ==
    IF arc.generation_source = "life_event"
    THEN SortInts(EventPhotos(arc.story_metadata.life_event_id[1]))
    ELSE IF arc.generation_source \in {"ai_pattern", "unified_ai_pattern"}
              /\ arc.story_metadata.photo_ids # <<>>
    THEN SortByCapture({i \in DOMAIN imgs : i \in Range(arc.story_metadata.photo_ids)},
                       imgs)
    ELSE IF arc.start_date # NULL /\ arc.end_date # NULL
    THEN SortByCapture({i \in DOMAIN imgs :
                           /\ imgs[i].capture_date # NULL
                           /\ Stamp(imgs[i].capture_date) >= Stamp(arc.start_date)
                           /\ Stamp(imgs[i].capture_date) <= Stamp(arc.end_date)}, imgs)
    ELSE <<>>

\* a linking that leaves out the cover photo
link_photos_to_story_arc_SkipsCover(story_id, photos) ==
    {[story_id |-> story_id, image_id |-> photos[k], sequence_order |-> k - 1,
      is_cover |-> FALSE] : k \in DOMAIN photos \ {1}}

\* link_photos_to_story_arc
link_photos_to_story_arc(story_id, photos) ==
    {[story_id |-> story_id, image_id |-> photos[k], sequence_order |-> k - 1,
      is_cover |-> (k = 1)] : k \in DOMAIN photos}

\* the rows of the arcs of one pass, numbered in the order they were added
ArcRows(arcs, firstId) == {[id |-> firstId + k - 1] @@ arcs[k] : k \in DOMAIN arcs}

\* the photo links of the rows of one pass
ArcLinks(rows, imgs) ==
    UNION {link_photos_to_story_arc(r.id, ArcPhotos(r, imgs)) : r \in rows}

\* what one pass persists: the arcs, numbered in the order they were added, and
\* their photo links
PersistArcs(arcs) ==
    LET rows == ArcRows(arcs, nextStoryId)
    IN  /\ ret' = <<"ok", [k \in DOMAIN arcs |-> nextStoryId + k - 1]>>
        /\ stories' = stories \cup rows
        /\ storyImages' = storyImages \cup ArcLinks(rows, images)
        /\ nextStoryId' = nextStoryId + Len(arcs)

detect_story_arcs_for_chapter(chapter_id, ai_fails, tieCats, tieEmos) ==
    /\ \E x \in chapters : x.id = chapter_id
    /\ lastCall' = <<"detect", ai_fails, chapter_id>>
    /\ UNCHANGED <<running, categoryTable>>
    /\ UNCHANGED <<birth_date, images, lifeEvents, lifeEventImages, chapters,
                   chapterPhotos, nextChapterId, patterns, patternImages,
                   nextPatternId, clusters>>
    /\ \E c \in {x \in chapters : x.id = chapter_id} :
       \E photos \in {SortByCapture(ChapterQueryPhotos(c, images), images)} :
          IF photos = <<>>
          THEN /\ ret' = <<"ok", <<>>>>
               /\ UNCHANGED <<stories, storyImages, nextStoryId>>
          ELSE IF detect_trip_arcs(photos, images)[1] = "raise"
          THEN /\ ret' = <<"AttributeError", <<>>>>
               /\ UNCHANGED <<stories, storyImages, nextStoryId>>
          ELSE \E arcs \in {CollectArcs(c, photos, images, ai_fails, tieCats, tieEmos)} :
                  PersistArcs(arcs)

(***************************************************************************)
(* The chapter-generation endpoint: generate_chapters of                   *)
(* app/routers/chapters.py.  The narrative enhancement between two passes  *)
(* catches its own failures and writes subtitle and description only.      *)
(***************************************************************************)
\* the loop over the returned chapters from position k on; `acc` holds the
\* stories committed so far, the next story id, the chapters whose pass ended
\* and the status.  An exception of a pass ends the loop.
RECURSIVE DetectForChapters(_, _, _, _, _, _)
DetectForChapters(ids, k, acc, chs, imgs, ai_fails) ==
    IF k > Len(ids) THEN acc
    ELSE LET c      == CHOOSE x \in chs : x.id = ids[k]
             photos == SortByCapture(ChapterQueryPhotos(c, imgs), imgs)
             arcs   == CollectArcs(c, photos, imgs, ai_fails, <<>>, <<>>)
             rows   == ArcRows(arcs, acc.nextStoryId)
         IN  IF photos = <<>>
             THEN DetectForChapters(ids, k + 1,
                      [acc EXCEPT !.processed = Append(@, ids[k])], chs, imgs, ai_fails)
             ELSE IF detect_trip_arcs(photos, imgs)[1] = "raise"
             THEN [acc EXCEPT !.status = "500"]
             ELSE DetectForChapters(ids, k + 1,
                      [acc EXCEPT !.stories = @ \cup rows,
                                  !.storyImages = @ \cup ArcLinks(rows, imgs),
                                  !.nextStoryId = @ + Len(arcs),
                                  !.processed = Append(@, ids[k])],
                      chs, imgs, ai_fails)

\* POST /api/chapters/generate: chapter generation, then one detection pass for
\* every returned chapter, all inside one try block
generate_chapters(force, tie, ai_fails) ==
    /\ lastCall' = <<"generate_chapters", force>>
    /\ UNCHANGED <<running, categoryTable>>
    /\ UNCHANGED <<birth_date, lifeEvents, lifeEventImages, patterns,
                   patternImages, nextPatternId, clusters>>
    /\ \E o \in {GenerateOutcome(force, tie)} :
          /\ images' = o.images
          /\ chapters' = o.chapters
          /\ chapterPhotos' = o.chapterPhotos
          /\ nextChapterId' = o.nextChapterId
          /\ \E b \in {DetectForChapters(o.returned, 1,
                          [stories |-> o.stories, storyImages |-> o.storyImages,
                           nextStoryId |-> nextStoryId, processed |-> <<>>,
                           status |-> "ok"],
                          o.chapters, o.images, ai_fails)} :
                /\ stories' = b.stories
                /\ storyImages' = b.storyImages
                /\ nextStoryId' = b.nextStoryId
                /\ ret' = <<b.status, b.processed>>

(***************************************************************************)
(* The same endpoint taken apart at its commits.  `running[p]` holds the   *)
(* position of caller p and the locals of its request; the tables hold     *)
(* what is committed, the session's added rows are in `pending`.           *)
(***************************************************************************)
\* `running` with the entry of caller p set to rec
Put(p, rec) == [q \in DOMAIN running \cup {p} |-> IF q = p THEN rec ELSE running[q]]

\* caller p is inside `op` at position pc
At(p, op, pc) == p \in DOMAIN running /\ running[p].op = op /\ running[p].pc = pc

\* caller p has no request in flight
Free(p) ==
    IF p \in DOMAIN running THEN running[p].pc \in {"done", "failed"} ELSE TRUE

\* a commit that does not reach the table
Commit_Lost(table, pending) == table

\* db.commit(): the rows added to the session are in the table
Commit(table, pending) == table \cup pending

\* the position after the pass of chapter k of `returned`
AfterPass(returned, k) == IF k >= Len(returned) THEN "done" ELSE "detect"

\* the request arrives
ep_call(p, force) ==
    /\ Free(p)
    /\ running' = Put(p, [op |-> "generate_chapters", pc |-> "generate",
                          force |-> force, returned |-> <<>>, k |-> 1,
                          detected |-> <<>>, pending |-> {}])
    /\ lastCall' = <<"ep_call", force>>
    /\ UNCHANGED <<birth_date, images, lifeEvents, lifeEventImages, chapters,
                   chapterPhotos, nextChapterId, stories, storyImages, nextStoryId,
                   patterns, patternImages, nextPatternId, clusters, ret,
                   categoryTable>>

\* step 1 (chapters.py 190-202): generate_chapters_for_user returns after its
\* commit; no chapters end the request with success = False
ep_generate(p, tie) ==
    /\ At(p, "generate_chapters", "generate")
    /\ lastCall' = <<"ep_generate", running[p].force>>
    /\ UNCHANGED <<birth_date, lifeEvents, lifeEventImages, patterns,
                   patternImages, nextPatternId, nextStoryId, clusters, categoryTable>>
    /\ \E o \in {GenerateOutcome(running[p].force, tie)} :
          /\ images' = o.images
          /\ chapters' = o.chapters
          /\ chapterPhotos' = o.chapterPhotos
          /\ nextChapterId' = o.nextChapterId
          /\ stories' = o.stories
          /\ storyImages' = o.storyImages
          /\ running' = [running EXCEPT ![p].returned = o.returned,
                                        ![p].pc = IF o.returned = <<>> THEN "done"
                                                  ELSE "detect"]
          /\ ret' = IF o.returned = <<>> THEN <<"no chapters", <<>>>> ELSE ret

\* detect_story_arcs_for_chapter up to `db.add` (story_arc_detector.py 297-362)
\* for chapter k of the returned list: the arcs are in the session
ep_detect(p, ai_fails) ==
    /\ At(p, "generate_chapters", "detect")
    /\ lastCall' = <<"ep_detect", ai_fails, running[p].returned[running[p].k]>>
    /\ UNCHANGED <<birth_date, images, lifeEvents, lifeEventImages, chapters,
                   chapterPhotos, nextChapterId, stories, storyImages, nextStoryId,
                   patterns, patternImages, nextPatternId, clusters, categoryTable>>
    /\ \E c \in {x \in chapters : x.id = running[p].returned[running[p].k]} :
       \E photos \in {SortByCapture(ChapterQueryPhotos(c, images), images)} :
          IF photos = <<>>
          THEN \E to \in {AfterPass(running[p].returned, running[p].k)} :
                  /\ running' = [running EXCEPT ![p].detected = Append(@, {}),
                                                ![p].k = @ + 1,
                                                ![p].pc = to]
                  /\ ret' = IF to = "done" THEN <<"ok", running[p].returned>> ELSE ret
          ELSE IF detect_trip_arcs(photos, images)[1] = "raise"
          THEN /\ running' = [running EXCEPT ![p].pc = "failed"]
               /\ ret' = <<"500", SubSeq(running[p].returned, 1, running[p].k - 1)>>
          ELSE \E arcs \in {CollectArcs(c, photos, images, ai_fails, <<>>, <<>>)} :
               \E rows \in {ArcRows(arcs, nextStoryId)} :
                  /\ running' = [running EXCEPT ![p].detected = Append(@, rows),
                                                ![p].pending = rows,
                                                ![p].pc = "commit_arcs"]
                  /\ ret' = ret

\* the first commit of the pass (story_arc_detector.py 364-368)
ep_commit_arcs(p) ==
    /\ At(p, "generate_chapters", "commit_arcs")
    /\ lastCall' = <<"ep_commit_arcs", FALSE>>
    /\ stories' = Commit(stories, running[p].pending)
    /\ nextStoryId' = nextStoryId + Cardinality(running[p].pending)
    /\ running' = [running EXCEPT ![p].pc = "commit_links"]
    /\ UNCHANGED <<birth_date, images, lifeEvents, lifeEventImages, chapters,
                   chapterPhotos, nextChapterId, storyImages, patterns,
                   patternImages, nextPatternId, clusters, ret, categoryTable>>

\* the photo links and the second commit of the pass (story_arc_detector.py
\* 372-414); the loop goes on to the next chapter or the response is returned
ep_commit_links(p) ==
    /\ At(p, "generate_chapters", "commit_links")
    /\ lastCall' = <<"ep_commit_links", FALSE>>
    /\ storyImages' = Commit(storyImages, ArcLinks(running[p].pending, images))
    /\ \E to \in {AfterPass(running[p].returned, running[p].k)} :
          /\ running' = [running EXCEPT ![p].pending = {},
                                        ![p].k = @ + 1,
                                        ![p].pc = to]
          /\ ret' = IF to = "done" THEN <<"ok", running[p].returned>> ELSE ret
    /\ UNCHANGED <<birth_date, images, lifeEvents, lifeEventImages, chapters,
                   chapterPhotos, nextChapterId, stories, nextStoryId, patterns,
                   patternImages, nextPatternId, clusters, categoryTable>>

(***************************************************************************)
(* generate_chapters_for_user taken apart at its queries and commits, for  *)
(* callers that share the database.  The field `serial` of a request is    *)
(* history: no request so far has overlapped another.                      *)
(***************************************************************************)
\* the delete never taken
NeedsDelete_Never(existing, force) == FALSE

\* `if force_regenerate and existing_chapters > 0`
NeedsDelete(existing, force) == force /\ existing > 0

\* the call arrives
gc_call(p, force) ==
    /\ Free(p)
    /\ running' =
          LET alone == \A q \in DOMAIN running :
                          /\ running[q].serial
                          /\ q # p => running[q].pc \in {"done", "failed"}
          IN  [q \in DOMAIN running \cup {p} |->
                  IF q = p
                  THEN [op |-> "generate_chapters_for_user", pc |-> "check",
                        force |-> force, existing |-> 0, serial |-> alone]
                  ELSE [running[q] EXCEPT !.serial = alone]]
    /\ lastCall' = <<"gc_call", force>>
    /\ UNCHANGED <<birth_date, images, lifeEvents, lifeEventImages, chapters,
                   chapterPhotos, nextChapterId, stories, storyImages, nextStoryId,
                   patterns, patternImages, nextPatternId, clusters, ret,
                   categoryTable>>

\* the existence check (chapter_generator.py 279-282): stored chapters are
\* returned unless force_regenerate is set
gc_check(p) ==
    /\ At(p, "generate_chapters_for_user", "check")
    /\ lastCall' = <<"gc_check", running[p].force>>
    /\ \E existing \in {Cardinality(chapters)} :
          IF ReturnsExisting(existing, running[p].force)
          THEN /\ running' = [running EXCEPT ![p].existing = existing, ![p].pc = "done"]
               /\ ret' = <<"ok", OrderBySequence(chapters)>>
          ELSE /\ running' = [running EXCEPT
                                 ![p].existing = existing,
                                 ![p].pc = IF NeedsDelete(existing, running[p].force)
                                           THEN "delete" ELSE "insert"]
               /\ ret' = ret
    /\ UNCHANGED <<birth_date, images, lifeEvents, lifeEventImages, chapters,
                   chapterPhotos, nextChapterId, stories, storyImages, nextStoryId,
                   patterns, patternImages, nextPatternId, clusters, categoryTable>>

\* the delete and its commit (chapter_generator.py 285-288): every chapter row
\* of the user that is stored now, with the rows that cascade
gc_delete(p) ==
    /\ At(p, "generate_chapters_for_user", "delete")
    /\ lastCall' = <<"gc_delete", running[p].force>>
    /\ chapters' = {}
    /\ chapterPhotos' = {}
    /\ stories' = stories \ StoriesOf(chapters)
    /\ storyImages' = {si \in storyImages : \A g \in StoriesOf(chapters) : si.story_id # g.id}
    /\ running' = [running EXCEPT ![p].pc = "insert"]
    /\ UNCHANGED <<birth_date, images, lifeEvents, lifeEventImages, nextChapterId,
                   nextStoryId, patterns, patternImages, nextPatternId, clusters,
                   ret, categoryTable>>

\* the photo query, the chapters built from it, and the commit
\* (chapter_generator.py 290-332)
gc_insert(p, tie) ==
    /\ At(p, "generate_chapters_for_user", "insert")
    /\ lastCall' = <<"gc_insert", running[p].force>>
    /\ running' = [running EXCEPT ![p].pc = "done"]
    /\ \E session \in {WithUploadFallback(images)} :
       \E dated \in {{i \in DOMAIN session : session[i].capture_date # NULL}} :
          IF dated = {}
          THEN /\ ret' = <<"ok", <<>>>>
               /\ UNCHANGED <<images, chapters, chapterPhotos, nextChapterId>>
          ELSE \E built \in
                  {IF birth_date # NULL
                   THEN generate_age_based_chapters(birth_date,
                            SortByCapture(dated, session), session, nextChapterId, tie)
                   ELSE generate_year_based_chapters(
                            SortByCapture(dated, session), session, nextChapterId, tie)} :
                  /\ ret' = <<"ok", [n \in 1..Cardinality(built) |-> nextChapterId + n - 1]>>
                  /\ images' = session
                  /\ chapters' = chapters \cup {x[1] : x \in built}
                  /\ chapterPhotos' = chapterPhotos \cup {<<x[1].id, x[2]>> : x \in built}
                  /\ nextChapterId' = nextChapterId + Cardinality(built)
    /\ UNCHANGED <<birth_date, lifeEvents, lifeEventImages, stories, storyImages,
                   nextStoryId, patterns, patternImages, nextPatternId, clusters,
                   categoryTable>>

(***************************************************************************)
(* The Celery task classify_image_task of app/tasks.py.  `running[t]` is   *)
(* the task's record in the result backend (state, info) with the rows its *)
(* session holds uncommitted.                                              *)
(***************************************************************************)
\* an `except` block that does not raise again: the task returns None
OnException_Swallowed(info) == [state |-> "SUCCESS", info |-> NULL]

\* `self.db.rollback(); raise`: the worker stores FAILURE with the exception
OnException(info) == [state |-> "FAILURE", info |-> info]

\* the task is not queued or being executed
TaskIdle(t) ==
    IF t \in DOMAIN running THEN running[t].state \in {"SUCCESS", "FAILURE"} ELSE TRUE

TaskIn(t, state, progress) ==
    /\ t \in DOMAIN running
    /\ running[t].op = "classify_image_task"
    /\ running[t].state = state
    /\ running[t].progress = progress

\* classify_image_task.delay(image_id): the task is queued
task_delay(t, image_id) ==
    /\ TaskIdle(t)
    /\ running' = Put(t, [op |-> "classify_image_task", state |-> "PENDING",
                          progress |-> 0, image_id |-> image_id, info |-> NULL,
                          session |-> {}])
    /\ lastCall' = <<"task_delay", FALSE, image_id>>
    /\ UNCHANGED <<birth_date, images, lifeEvents, lifeEventImages, chapters,
                   chapterPhotos, nextChapterId, stories, storyImages, nextStoryId,
                   patterns, patternImages, nextPatternId, clusters, ret,
                   categoryTable>>

\* a worker takes the task; update_state(PROCESSING, progress 0) (tasks.py 45)
task_begin(t) ==
    /\ TaskIn(t, "PENDING", 0)
    /\ running' = [running EXCEPT ![t].state = "PROCESSING"]
    /\ lastCall' = <<"task_begin", FALSE, running[t].image_id>>
    /\ UNCHANGED <<birth_date, images, lifeEvents, lifeEventImages, chapters,
                   chapterPhotos, nextChapterId, stories, storyImages, nextStoryId,
                   patterns, patternImages, nextPatternId, clusters, ret,
                   categoryTable>>

\* the image query (tasks.py 48-53): ValueError for a missing image, which the
\* except block rolls back and raises again (tasks.py 82-85)
task_get_image(t) ==
    /\ TaskIn(t, "PROCESSING", 0)
    /\ lastCall' = <<"task_get_image", FALSE, running[t].image_id>>
    /\ IF running[t].image_id \in ImageIds
       THEN running' = [running EXCEPT ![t].progress = 50]
       ELSE \E e \in {OnException(<<"Image not found", running[t].image_id>>)} :
               running' = [running EXCEPT ![t].state = e.state, ![t].info = e.info,
                                          ![t].session = {}]
    /\ UNCHANGED <<birth_date, images, lifeEvents, lifeEventImages, chapters,
                   chapterPhotos, nextChapterId, stories, storyImages, nextStoryId,
                   patterns, patternImages, nextPatternId, clusters, ret,
                   categoryTable>>

\* the classification and the save loop with its commit (tasks.py 54-80);
\* `results` are the category names the classifier returns, none when it fails
task_classify(t, results) ==
    /\ TaskIn(t, "PROCESSING", 50)
    /\ lastCall' = <<"task_classify", FALSE, running[t].image_id>>
    /\ categoryTable' = categoryTable \cup results
    /\ images' = [images EXCEPT ![running[t].image_id].categories = @ \cup results]
    /\ running' = [running EXCEPT ![t].state = "SUCCESS",
                                  ![t].info = <<"completed", Cardinality(results)>>,
                                  ![t].session = {}]
    /\ UNCHANGED <<birth_date, lifeEvents, lifeEventImages, chapters,
                   chapterPhotos, nextChapterId, stories, storyImages, nextStoryId,
                   patterns, patternImages, nextPatternId, clusters, ret>>

(***************************************************************************)
(* Pattern detection: app/routers/patterns.py                              *)
(***************************************************************************)
MinImages == 3

MinDatedImages == 3

\* a pattern row; confidence_score is DECIMAL(5,4) and is held in
\* ten-thousandths; a monthly pattern has no day (0)
Pattern(id, frequency, month, day, years, confidence) ==
    [id |-> id, pattern_type |-> "temporal", frequency |-> frequency, month |-> month,
     day |-> day, years |-> years, confidence_score |-> confidence]

\* the monthly score, min(0.90, 0.6 + 0.05 * len(imgs))
MonthlyConfidence(count) == Min2(9000, 6000 + 500 * count)

\* the annual score without its cap
AnnualConfidence_Uncapped(count) == 7000 + 1000 * count

\* min(0.95, 0.7 + 0.1 * len(imgs)): the float sum is off by less than 1e-15 and
\* the column keeps four decimals, so the stored value is the exact one
AnnualConfidence(count) == Min2(9500, 7000 + 1000 * count)

\* the image ids of a group in the order of the image query
GroupList(group) == SortInts(group)

\* the groups of a defaultdict in insertion order: by the first image of each
GroupsInOrder(groups) ==
    LET firsts == SortInts({SetMin(g) : g \in groups})
    IN  [k \in DOMAIN firsts |-> CHOOSE g \in groups : SetMin(g) = firsts[k]]

YearsOf(ids, imgs) == [k \in DOMAIN ids |-> Year(imgs[ids[k]].capture_date)]

\* detect_temporal_patterns: the pairs <<pattern without id, image ids>> in the
\* order they are created, annual groups first, then monthly groups
detect_temporal_patterns(imgs) ==
    LET dated   == {i \in DOMAIN imgs : imgs[i].capture_date # NULL}
        yearsIn(g) == {Year(imgs[i].capture_date) : i \in g}
        annual_groups ==
            {{i \in dated : /\ Month(imgs[i].capture_date) = Month(imgs[j].capture_date)
                            /\ Day(imgs[i].capture_date) = Day(imgs[j].capture_date)} :
                j \in dated}
        monthly_groups ==
            {{i \in dated : Month(imgs[i].capture_date) = Month(imgs[j].capture_date)} :
                j \in dated}
        annual  == GroupsInOrder({g \in annual_groups :
                        Cardinality(g) >= 2 /\ Cardinality(yearsIn(g)) >= 2})
        monthly == GroupsInOrder({g \in monthly_groups :
                        Cardinality(g) >= 3 /\ Cardinality(yearsIn(g)) >= 2})
        date(g) == imgs[SetMin(g)].capture_date
    IN  IF Cardinality(dated) < MinDatedImages THEN <<>>
        ELSE [k \in DOMAIN annual |->
                 <<Pattern(0, "annual", Month(date(annual[k])), Day(date(annual[k])),
                           YearsOf(GroupList(annual[k]), imgs),
                           AnnualConfidence(Cardinality(annual[k]))),
                   annual[k]>>]
             \o [k \in DOMAIN monthly |->
                 <<Pattern(0, "monthly", Month(date(monthly[k])), 0,
                           SortInts(yearsIn(monthly[k])),
                           MonthlyConfidence(Cardinality(monthly[k]))),
                   monthly[k]>>]

MinLocatedImages == 3

\* a row of the locations table: latitude and longitude are DECIMAL columns and
\* are held in units of 1e-8 degree
Location(latitude, longitude, location_name, city) ==
    [latitude |-> latitude, longitude |-> longitude, location_name |-> location_name,
     city |-> city]

\* the images with location data, in the order of the image query: the image has
\* a Location row (its location field holds the rows found for it, at most one)
\* whose latitude and longitude are truthy, that is neither missing nor zero
located_images(imgs) ==
    LET ids == {i \in DOMAIN imgs :
                   IF Len(imgs[i].location) = 0 THEN FALSE
                   ELSE /\ imgs[i].location[1].latitude # 0
                        /\ imgs[i].location[1].longitude # 0}
    IN  SortInts(ids)

\* detect_spatial_patterns.  With fewer than 3 located images it returns [].
\* Otherwise the first located image opens the first cluster and the second one
\* is compared with it: the centre and the differences are Decimal values (the
\* columns are DECIMAL), and `(... ** 2 + ... ** 2) ** 0.5` raises a Decimal to
\* a float power, which is a TypeError.  No comparison ever completes, so no
\* cluster grows and no spatial pattern is built.
detect_spatial_patterns(imgs) ==
    IF Len(located_images(imgs)) < MinLocatedImages
    THEN <<"ok", <<>>>>
    ELSE <<"raise", <<>>>>

\* POST /api/patterns/detect; pattern_types names the detectors to run.  An
\* exception of a detector is answered with HTTP 500 after a rollback: the rows
\* flushed so far are gone, the ids drawn from the sequence stay used.
detect_patterns(pattern_types) ==
    /\ lastCall' = <<"detect_patterns", "spatial" \in pattern_types>>
    /\ UNCHANGED <<running, categoryTable>>
    /\ UNCHANGED <<birth_date, images, lifeEvents, lifeEventImages, chapters,
                   chapterPhotos, nextChapterId, stories, storyImages, nextStoryId,
                   clusters>>
    /\ IF Len(images) < MinImages
       THEN /\ ret' = <<"Need at least 3 images", <<>>>>
            /\ UNCHANGED <<patterns, patternImages, nextPatternId>>
       ELSE \E found \in {IF "temporal" \in pattern_types
                          THEN detect_temporal_patterns(images) ELSE <<>>},
               spatial \in {IF "spatial" \in pattern_types
                            THEN detect_spatial_patterns(images) ELSE <<"ok", <<>>>>} :
               IF spatial[1] = "raise"
               THEN /\ ret' = <<"Pattern detection failed", <<>>>>
                    /\ nextPatternId' = nextPatternId + Len(found)
                    /\ UNCHANGED <<patterns, patternImages>>
               ELSE /\ ret' = <<"ok", [k \in DOMAIN found |-> nextPatternId + k - 1]>>
                    /\ patterns' = patterns
                          \cup {[found[k][1] EXCEPT !.id = nextPatternId + k - 1] :
                                   k \in DOMAIN found}
                    /\ patternImages' = patternImages
                          \cup UNION {{<<nextPatternId + k - 1, i>> : i \in found[k][2]} :
                                         k \in DOMAIN found}
                    /\ nextPatternId' = nextPatternId + Len(found)

\* a deletion that leaves the rows of pattern_images behind
delete_all_patterns_KeepsLinks ==
    /\ lastCall' = <<"delete_all_patterns", FALSE>>
    /\ ret' = <<"ok", <<Cardinality(patterns)>>>>
    /\ patterns' = {}
    /\ UNCHANGED <<running, categoryTable>>
    /\ UNCHANGED <<birth_date, images, lifeEvents, lifeEventImages, chapters,
                   chapterPhotos, nextChapterId, stories, storyImages, nextStoryId,
                   patternImages, nextPatternId, clusters>>

\* DELETE /api/patterns/delete-all: every pattern of the user is deleted, the
\* rows of pattern_images go with them (ON DELETE CASCADE), and the number of
\* deleted patterns is returned; the id sequence is not reset
delete_all_patterns ==
    /\ lastCall' = <<"delete_all_patterns", FALSE>>
    /\ ret' = <<"ok", <<Cardinality(patterns)>>>>
    /\ patterns' = {}
    /\ patternImages' = {}
    /\ UNCHANGED <<running, categoryTable>>
    /\ UNCHANGED <<birth_date, images, lifeEvents, lifeEventImages, chapters,
                   chapterPhotos, nextChapterId, stories, storyImages, nextStoryId,
                   nextPatternId, clusters>>

(***************************************************************************)
(* The initial state: an empty database.                                   *)
(***************************************************************************)
InitWith(birth) ==
    /\ birth_date = birth
    /\ images = <<>>
    /\ lifeEvents = <<>>
    /\ lifeEventImages = {}
    /\ chapters = {}
    /\ chapterPhotos = {}
    /\ nextChapterId = 1
    /\ stories = {}
    /\ storyImages = {}
    /\ nextStoryId = 1
    /\ patterns = {}
    /\ patternImages = {}
    /\ nextPatternId = 1
    /\ clusters = [fn |-> "none", gap |-> 0, min |-> 0, out |-> <<>>]
    /\ ret = <<"ok", <<>>>>
    /\ lastCall = <<"none", FALSE>>
    /\ running = <<>>
    /\ categoryTable = {}

(***************************************************************************)
(* Chapter generation scenarios: a user with or without a birth date       *)
(* uploads photos, then chapters are generated and regenerated.            *)
(***************************************************************************)
ChapterBirthDates == {NULL, <<1990, 6, 15>>}

\* before the birth date; age 5 in the calendar year of age 6; age 6; age 7;
\* age 101
ChapterCaptureDates ==
    {DT(1989, 12, 31, 0), DT(1996, 3, 1, 0), DT(1996, 9, 1, 0), DT(1997, 5, 5, 0),
     DT(2091, 7, 1, 0)}

ChapterImages ==
    {Image(c, DT(1999, 2, 2, 0), FALSE, {}, {}) : c \in ChapterCaptureDates}
        \cup {Image(NULL, u, FALSE, {}, {}) : u \in {NULL, DT(1999, 2, 2, 0)}}

ChInit == \E b \in ChapterBirthDates : InitWith(b)

ChUpload == \E img \in ChapterImages : UploadPhoto(img, MaxChapterPhotos)

ChGenerate ==
    /\ nextChapterId <= MaxChapterId
    /\ \E force \in BOOLEAN : generate_chapters_for_user(force, <<"happy", "sad">>)

ChNext == ChUpload \/ ChGenerate

SpecChapters == ChInit /\ [][ChNext]_vars

(***************************************************************************)
(* Temporal clustering scenarios: photos with capture dates, in any id     *)
(* order, are handed to the two clusterers with the parameters their       *)
(* callers use.                                                            *)
(***************************************************************************)
\* gaps of 3.5 days (3 whole days), 7.5 days (7 whole days) and 39 days
ClusterCaptureDates ==
    {DT(2020, 1, 1, 0), DT(2020, 1, 4, 12), DT(2020, 1, 12, 0), DT(2020, 2, 20, 0)}

ClusterGaps == {3, 7, 30}

ClusterMinSizes == {2, 3}

ClInit == InitWith(NULL)

ClUpload ==
    \E c \in ClusterCaptureDates :
        UploadPhoto(Image(c, c, FALSE, {}, {}), MaxClusterPhotos)

ClClusterByTime ==
    \E g \in ClusterGaps, m \in ClusterMinSizes : ClusterCall("_cluster_by_time", g, m)

ClClusterBursts ==
    \E g \in ClusterGaps : ClusterCall("cluster_photos_by_temporal_bursts", g, BurstMinSize)

ClNext == ClUpload \/ ClClusterByTime \/ ClClusterBursts

SpecCluster == ClInit /\ [][ClNext]_vars

(***************************************************************************)
(* Story-arc scenarios: a user without a birth date uploads photos of one  *)
(* year in capture order, records life events, has the year's chapter      *)
(* generated and runs the arc detector on it.  The photos carry no         *)
(* categories; one kind of photo has a location row.                       *)
(***************************************************************************)
MaxArcPhotos == 5

MaxEvents == 2

MaxStoryId == 1

\* gaps of 7.5 days (7 whole days) and 12 days
ArcCaptureDates == {DT(2020, 1, 1, 0), DT(2020, 1, 8, 12), DT(2020, 1, 20, 12)}

ArcImages ==
    {Image(c, c, FALSE, {}, {}) : c \in ArcCaptureDates}
        \cup {Image(DT(2020, 1, 1, 0), DT(2020, 1, 1, 0), TRUE, {}, {})}

\* an upload of a photo captured no earlier than the photo before it
UploadInCaptureOrder(img, max) ==
    /\ IF images = <<>> THEN TRUE
       ELSE Stamp(img.capture_date) >= Stamp(images[Len(images)].capture_date)
    /\ UploadPhoto(img, max)

GenerateOnce ==
    /\ chapters = {}
    /\ images # <<>>
    /\ generate_chapters_for_user(FALSE, <<"happy", "sad">>)

ArInit == InitWith(NULL)

ArUpload ==
    /\ lifeEvents = <<>>
    /\ \E img \in ArcImages : UploadInCaptureOrder(img, MaxArcPhotos)

ArCreateLifeEvent ==
    \E ids \in {{}, {1}} :
        create_life_event("wedding", DT(2020, 1, 1, 0), ids, MaxEvents)

ArGenerate == GenerateOnce

ArDetect ==
    /\ nextStoryId <= MaxStoryId
    /\ \E c \in chapters, ai_fails \in BOOLEAN :
          detect_story_arcs_for_chapter(c.id, ai_fails, <<>>, <<>>)

ArNext == ArUpload \/ ArCreateLifeEvent \/ ArGenerate \/ ArDetect

SpecArcs == ArInit /\ [][ArNext]_vars

(***************************************************************************)
(* Unified-detector scenarios: photos of one year with categories, no      *)
(* location rows and no life events.                                       *)
(***************************************************************************)
MaxUnifiedPhotos == 3

\* spans of 2.5 days (2 whole days) and 3 days; a photo 74 days later
UnifiedCaptureDates ==
    {DT(2020, 1, 1, 0), DT(2020, 1, 3, 12), DT(2020, 1, 4, 0), DT(2020, 3, 15, 0)}

\* no category; a beach-family keyword; five keywords of no rule, which fill the
\* category limit
UnifiedCategories == {{}, {"beach"}, {"sky", "cloud", "tree", "road", "wall"}}

\* the orders in which categories of equal count come back
UnifiedTies ==
    {<<"beach", "sky", "cloud", "tree", "road", "wall">>,
     <<"sky", "cloud", "tree", "road", "wall", "beach">>}

UnInit == InitWith(NULL)

UnUpload ==
    \E c \in UnifiedCaptureDates, cats \in UnifiedCategories :
        UploadInCaptureOrder(Image(c, c, FALSE, cats, {}), MaxUnifiedPhotos)

UnGenerate == GenerateOnce

UnDetect ==
    /\ nextStoryId <= MaxStoryId
    /\ \E c \in chapters, ai_fails \in BOOLEAN, tie \in UnifiedTies :
          detect_story_arcs_for_chapter(c.id, ai_fails, tie, <<>>)

UnNext == UnUpload \/ UnGenerate \/ UnDetect

SpecUnified == UnInit /\ [][UnNext]_vars

(***************************************************************************)
(* Endpoint scenarios: photos of two years that are more than a year       *)
(* apart, so that two chapters come out, some with a location row; the     *)
(* endpoint is called with and without force_regenerate.                   *)
(***************************************************************************)
MaxBatchPhotos == 4

MaxBatchStoryId == 3

BatchImages ==
    {Image(DT(2018, 5, 1, 0), DT(2018, 5, 1, 0), loc, {}, {}) : loc \in BOOLEAN}
        \cup {Image(DT(2020, 1, 1, 0), DT(2020, 1, 1, 0), FALSE, {}, {})}

BaInit == InitWith(NULL)

BaUpload == \E img \in BatchImages : UploadInCaptureOrder(img, MaxBatchPhotos)

BaGenerateChapters ==
    /\ images # <<>>
    /\ nextChapterId <= MaxChapterId
    /\ nextStoryId <= MaxBatchStoryId
    /\ \E force \in BOOLEAN, ai_fails \in BOOLEAN :
          generate_chapters(force, <<"happy", "sad">>, ai_fails)

BaNext == BaUpload \/ BaGenerateChapters

SpecBatch == BaInit /\ [][BaNext]_vars

(***************************************************************************)
(* Commit scenarios: the photos of the batch scenarios, and one caller of  *)
(* the endpoint whose request advances from commit to commit.              *)
(***************************************************************************)
CoInit == InitWith(NULL)

CoUpload ==
    /\ Free(1)
    /\ \E img \in BatchImages : UploadInCaptureOrder(img, MaxBatchPhotos)

CoCall ==
    /\ images # <<>>
    /\ nextChapterId <= MaxChapterId
    /\ nextStoryId <= MaxBatchStoryId
    /\ \E force \in BOOLEAN : ep_call(1, force)

CoGenerate == ep_generate(1, <<"happy", "sad">>)

CoDetect == \E ai_fails \in BOOLEAN : ep_detect(1, ai_fails)

CoCommitArcs == ep_commit_arcs(1)

CoCommitLinks == ep_commit_links(1)

CoNext == CoUpload \/ CoCall \/ CoGenerate \/ CoDetect \/ CoCommitArcs \/ CoCommitLinks

SpecCommit == CoInit /\ [][CoNext]_vars

(***************************************************************************)
(* Race scenarios: two callers generate and regenerate the chapters of the *)
(* same user; their steps interleave in any order.                         *)
(***************************************************************************)
MaxRacePhotos == 2

Callers == {1, 2}

RaceImages ==
    {Image(c, c, FALSE, {}, {}) : c \in {DT(2018, 5, 1, 0), DT(2020, 1, 1, 0)}}

RaInit == InitWith(NULL)

RaUpload ==
    /\ \A p \in Callers : Free(p)
    /\ \E img \in RaceImages : UploadInCaptureOrder(img, MaxRacePhotos)

RaCall ==
    /\ images # <<>>
    /\ nextChapterId <= MaxChapterId
    /\ \E p \in Callers, force \in BOOLEAN : gc_call(p, force)

RaCheck == \E p \in Callers : gc_check(p)

RaDelete == \E p \in Callers : gc_delete(p)

RaInsert == \E p \in Callers : gc_insert(p, <<"happy", "sad">>)

RaNext == RaUpload \/ RaCall \/ RaCheck \/ RaDelete \/ RaInsert

SpecRace == RaInit /\ [][RaNext]_vars

(***************************************************************************)
(* Task scenarios: photos are uploaded while no task is queued, and the    *)
(* classification task is sent for stored and for missing image ids.  A    *)
(* running worker takes every queued task and executes it to its end.      *)
(***************************************************************************)
MaxTaskPhotos == 2

TaskIds == {1}

\* what the classifier returns: nothing, one category, two categories
TaskResults == {{}, {"beach"}, {"beach", "sky"}}

TaInit == InitWith(NULL)

TaUpload ==
    /\ \A t \in TaskIds : TaskIdle(t)
    /\ UploadPhoto(Image(DT(2020, 1, 1, 0), DT(2020, 1, 1, 0), FALSE, {}, {}),
                   MaxTaskPhotos)

TaDelay == \E t \in TaskIds, image_id \in 1..(MaxTaskPhotos + 1) : task_delay(t, image_id)

TaBegin == \E t \in TaskIds : task_begin(t)

TaGetImage == \E t \in TaskIds : task_get_image(t)

TaClassify == \E t \in TaskIds, results \in TaskResults : task_classify(t, results)

TaNext == TaUpload \/ TaDelay \/ TaBegin \/ TaGetImage \/ TaClassify

SpecTask ==
    TaInit /\ [][TaNext]_vars /\ WF_vars(TaBegin \/ TaGetImage \/ TaClassify)

(***************************************************************************)
(* Trip scenarios: photos of one venue, geotagged or not, on two days      *)
(* three days apart; chapters are generated once and a pass is run.        *)
(***************************************************************************)
MaxTripPhotos == 5

TripImages ==
    {Image(c, c, loc, {}, {}) : c \in {DT(2020, 1, 1, 0), DT(2020, 1, 4, 0)},
                                loc \in BOOLEAN}

TrInit == InitWith(NULL)

TrUpload == \E img \in TripImages : UploadInCaptureOrder(img, MaxTripPhotos)

TrGenerate == GenerateOnce

TrDetect ==
    /\ nextStoryId <= MaxStoryId
    /\ \E c \in chapters, ai_fails \in BOOLEAN :
          detect_story_arcs_for_chapter(c.id, ai_fails, <<>>, <<>>)

TrNext == TrUpload \/ TrGenerate \/ TrDetect

SpecTrip == TrInit /\ [][TrNext]_vars

(***************************************************************************)
(* Burst scenarios: up to six photos without categories on three days, the *)
(* second 30.5 days after the first and the third 44 days after the        *)
(* second; chapters are generated once and a pass is run.                  *)
(***************************************************************************)
MaxBurstPhotos == 6

BurstCaptureDates == {DT(2020, 1, 1, 0), DT(2020, 1, 31, 12), DT(2020, 3, 15, 0)}

BuInit == InitWith(NULL)

BuUpload ==
    \E c \in BurstCaptureDates :
        UploadInCaptureOrder(Image(c, c, FALSE, {}, {}), MaxBurstPhotos)

BuGenerate == GenerateOnce

BuDetect ==
    /\ nextStoryId <= MaxStoryId
    /\ \E c \in chapters, ai_fails \in BOOLEAN :
          detect_story_arcs_for_chapter(c.id, ai_fails, <<>>, <<>>)

BuNext == BuUpload \/ BuGenerate \/ BuDetect

SpecBursts == BuInit /\ [][BuNext]_vars

(***************************************************************************)
(* Rule scenarios: photos tagged outdoor or not at all, with the emotion   *)
(* happy, excited or none, on two days four days apart; chapters are       *)
(* generated once and a pass is run.                                       *)
(***************************************************************************)
MaxRulePhotos == 3

RuleImages ==
    {Image(c, c, FALSE, cats, emos) :
        c \in {DT(2020, 1, 1, 0), DT(2020, 1, 5, 0)},
        cats \in {{}, {"outdoor"}},
        emos \in {{}, {[name |-> "happy", dominant |-> TRUE]},
                  {[name |-> "excited", dominant |-> TRUE]}}}

RuInit == InitWith(NULL)

RuUpload == \E img \in RuleImages : UploadInCaptureOrder(img, MaxRulePhotos)

RuGenerate ==
    /\ chapters = {}
    /\ images # <<>>
    /\ generate_chapters_for_user(FALSE, <<"happy", "excited">>)

RuDetect ==
    /\ nextStoryId <= MaxStoryId
    /\ \E c \in chapters, ai_fails \in BOOLEAN :
          detect_story_arcs_for_chapter(c.id, ai_fails, <<"outdoor">>,
                                        <<"happy", "excited">>)

RuNext == RuUpload \/ RuGenerate \/ RuDetect

SpecRules == RuInit /\ [][RuNext]_vars

(***************************************************************************)
(* Emotion scenarios: photos of one day with emotion rows, one of them     *)
(* flagged dominant; chapters are generated and regenerated, and the       *)
(* database may return emotions of equal count in either order.            *)
(***************************************************************************)
MaxEmotionPhotos == 3

EmotionRows ==
    {{[name |-> "happy", dominant |-> TRUE]},
     {[name |-> "sad", dominant |-> TRUE]},
     {[name |-> "happy", dominant |-> TRUE], [name |-> "sad", dominant |-> FALSE]}}

EmotionTies == {<<"happy", "sad">>, <<"sad", "happy">>}

EmInit == InitWith(NULL)

EmUpload ==
    \E emos \in EmotionRows :
        UploadPhoto(Image(DT(2020, 1, 1, 0), DT(2020, 1, 1, 0), FALSE, {}, emos),
                    MaxEmotionPhotos)

EmGenerate ==
    /\ images # <<>>
    /\ nextChapterId <= MaxChapterId
    /\ \E force \in BOOLEAN, tie \in EmotionTies : generate_chapters_for_user(force, tie)

EmNext == EmUpload \/ EmGenerate

SpecEmotion == EmInit /\ [][EmNext]_vars

(***************************************************************************)
(* Pattern scenarios: photos of several years, some without a capture      *)
(* date, are uploaded in any order, temporal pattern detection is run any  *)
(* number of times and all patterns may be deleted.                        *)
(***************************************************************************)
MaxPatternPhotos == 4

MaxPatternId == 3

\* 5 March in three years, another day of March, and no capture date
PatternCaptureDates ==
    {DT(2019, 3, 5, 0), DT(2020, 3, 5, 0), DT(2021, 3, 5, 0), DT(2020, 3, 9, 0), NULL}

PaInit == InitWith(NULL)

PaUpload ==
    \E c \in PatternCaptureDates :
        UploadPhoto(Image(c, DT(2022, 1, 1, 0), FALSE, {}, {}), MaxPatternPhotos)

PaDetect ==
    /\ nextPatternId <= MaxPatternId
    /\ detect_patterns({"temporal"})

PaDeleteAll == delete_all_patterns

PaNext == PaUpload \/ PaDetect \/ PaDeleteAll

SpecPatterns == PaInit /\ [][PaNext]_vars

(***************************************************************************)
(* Spatial scenarios: photos taken at home, at a cafe next door and in a   *)
(* park, some without a location row or with a zero latitude, are uploaded *)
(* in any order and pattern detection is run with the spatial detector.    *)
(***************************************************************************)
MaxSpatialPhotos == 4

\* home and the cafe share their coordinates, the park is 0.5 degree away
SpatialLocations ==
    {<<>>,
     <<Location(1000000000, 500000000, "Home", "Oslo")>>,
     <<Location(1000000000, 500000000, "Cafe", "Oslo")>>,
     <<Location(1050000000, 500000000, "Park", "Oslo")>>,
     <<Location(0, 500000000, "Equator", "")>>}

SpatialCaptureDates == {DT(2019, 3, 5, 0), DT(2020, 3, 5, 0)}

SpInit == InitWith(NULL)

SpUpload ==
    \E c \in SpatialCaptureDates, loc \in SpatialLocations :
        UploadPhoto(Image(c, DT(2022, 1, 1, 0), loc, {}, {}), MaxSpatialPhotos)

SpDetect ==
    /\ nextPatternId <= MaxPatternId
    /\ \E pattern_types \in {{"spatial"}, {"temporal", "spatial"}} :
          detect_patterns(pattern_types)

SpNext == SpUpload \/ SpDetect

SpecSpatial == SpInit /\ [][SpNext]_vars

(***************************************************************************)
(* Properties of the temporal clusterers.                                  *)
(***************************************************************************)
\* every step between consecutive photos, sorted by capture time, is at most
\* `gap` whole days
AllGapsWithin(sorted, gap, imgs) ==
    \A k \in 2..Len(sorted) :
        DaysBetween(imgs[sorted[k]].capture_date, imgs[sorted[k - 1]].capture_date) <= gap

\* C4: for a photo set of at least min_cluster_size photos whose consecutive
\* gaps are all at most max_gap_days, the clusterer returns exactly one cluster,
\* and it holds all the photos.
C4_OneClusterWhenGapsSmall ==
    [][lastCall'[1] = "cluster" =>
          LET sorted == SortByCapture(ImageIds, images)
          IN  (Len(sorted) >= clusters'.min /\ AllGapsWithin(sorted, clusters'.gap, images))
                  => clusters'.out = <<sorted>>]_vars

C4_Witness ==
    /\ lastCall[1] = "cluster"
    /\ clusters.fn = "_cluster_by_time"
    /\ clusters.min = 3
    /\ Len(images) >= 3
    /\ \E i, j \in ImageIds : images[i].capture_date # images[j].capture_date
    /\ AllGapsWithin(SortByCapture(ImageIds, images), clusters.gap, images)
    /\ clusters.out = <<SortByCapture(ImageIds, images)>>

(***************************************************************************)
(* Properties of chapter generation.                                       *)
(***************************************************************************)
AssignedTo(c) == UNION {Range(x[2]) : x \in {y \in chapterPhotos : y[1] = c.id}}

InChapterRange(i, c) ==
    IF c.chapter_type = "age_based"
    THEN LET age == calculate_age(birth_date, images[i].capture_date)
         IN  c.age_start[1] <= age /\ age <= c.age_end[1]
    ELSE c.year_start <= Year(images[i].capture_date)
            /\ Year(images[i].capture_date) <= c.year_end

\* C2: after generate_chapters_for_user, every photo with a capture date is
\* assigned to exactly one chapter, and its age (age-based) or capture year
\* (year-based) lies in that chapter's range, also before birth and above 100.
C2_EveryDatedPhotoInOneChapter ==
    lastCall[1] = "generate" =>
        \A i \in ImageIds :
            images[i].capture_date # NULL =>
                /\ Cardinality({c \in chapters : i \in AssignedTo(c)}) = 1
                /\ \A c \in chapters : i \in AssignedTo(c) => InChapterRange(i, c)

\* C3: for every chapter, the photos the arc detector loads by the chapter's
\* calendar-year range are exactly the photos the generator assigned to it and
\* counted in photo_count.
C3_LoadedPhotosAreAssignedPhotos ==
    \A c \in chapters :
        /\ ChapterQueryPhotos(c, images) = AssignedTo(c)
        /\ c.photo_count = Cardinality(ChapterQueryPhotos(c, images))

\* C5: with chapters stored, generate_chapters_for_user(force_regenerate=false)
\* returns the stored chapters in sequence_order and changes no row; a second
\* such call returns the same list.
C5_NoForceReturnsStoredChapters ==
    [][(lastCall' = <<"generate", FALSE>> /\ chapters # {}) =>
          /\ chapters' = chapters
          /\ chapterPhotos' = chapterPhotos
          /\ images' = images
          /\ stories' = stories
          /\ ret' = <<"ok", OrderBySequence(chapters)>>
          /\ (lastCall = <<"generate", FALSE>> => ret' = ret)]_vars

C5_Witness ==
    /\ lastCall = <<"generate", FALSE>>
    /\ Cardinality(chapters) >= 2
    /\ ret = <<"ok", OrderBySequence(chapters)>>

\* C6: a forced regeneration on the same photos and birth date leaves the same
\* number of chapters with the same photo count per band or year range as the
\* run before it, also when photos take their date from the upload date.
C6_ForcedRerunSameChapters ==
    [][(lastCall' = <<"generate", TRUE>> /\ lastCall[1] = "generate") =>
          ChapterSummary(chapters') = ChapterSummary(chapters)]_vars

C6_Witness ==
    /\ lastCall = <<"generate", TRUE>>
    /\ Cardinality(chapters) >= 2
    /\ nextChapterId > 2 * Cardinality(chapters)
    /\ \E i \in ImageIds : images[i].capture_date = images[i].upload_date

(***************************************************************************)
(* Properties of story-arc detection.                                      *)
(***************************************************************************)
\* the arcs and photo links a step adds
NewStories == stories' \ stories

NewLinks == storyImages' \ storyImages

\* the photos a step links to arc r
LinkedTo(r) == {l.image_id : l \in {x \in NewLinks : x.story_id = r.id}}

\* the chapter of a detection pass, from the recorded call
PassChapter(call) == CHOOSE c \in chapters : c.id = call[3]

\* C1: within one pass of detect_story_arcs_for_chapter every photo is linked to
\* at most one of the arcs the pass creates.
C1_PhotoInAtMostOneArcOfPass ==
    [][lastCall'[1] = "detect" =>
          \A i \in ImageIds :
              Cardinality({l.story_id : l \in {x \in NewLinks : x.image_id = i}}) <= 1]_vars

\* the photos of chapter c captured between the start and the end of arc r
PhotosInArcRange(r, c) ==
    {i \in ChapterQueryPhotos(c, images) :
        /\ Stamp(images[i].capture_date) >= Stamp(r.start_date)
        /\ Stamp(images[i].capture_date) <= Stamp(r.end_date)}

SingleBurstPass ==
    /\ lastCall'[1] = "detect"
    /\ ~lastCall'[2]
    /\ lifeEvents = <<>>
    /\ \E photos \in {ChapterQueryPhotos(PassChapter(lastCall'), images)} :
          /\ \A i \in photos : ~images[i].location
          /\ Cardinality(photos) >= 3
          /\ AllGapsWithin(SortByCapture(photos, images), 30, images)

\* whole days between the first and the last photo of the pass's chapter
PassSpanDays ==
    LET photos == ChapterQueryPhotos(PassChapter(lastCall'), images)
        stamps == {Stamp(images[i].capture_date) : i \in photos}
    IN  (SetMax(stamps) - SetMin(stamps)) \div 24

\* C8: for a chapter without life events and locations whose photos form a single
\* burst, the pass creates exactly one arc; its recorded categories are the most
\* frequent five of the burst, and when a beach-family keyword is among them and
\* the span is at least 3 whole days the arc is 'Beach Vacation' of category trip and
\* all photos of the burst are linked to it.
C8_BeachVacationArc ==
    [][SingleBurstPass =>
          \E photos \in {ChapterQueryPhotos(PassChapter(lastCall'), images)} :
              /\ Cardinality(NewStories) = 1
              /\ \A r \in NewStories :
                    /\ \E t \in UnifiedTies :
                          r.story_metadata.categories = ClusterCategories(photos, images, t)
                    /\ (/\ r.story_metadata.categories \cap BeachKeywords # {}
                        /\ PassSpanDays >= 3)
                          => /\ r.title = <<"Beach Vacation", "">>
                             /\ r.arc_type = "trip"
                             /\ LinkedTo(r) = photos]_vars

\* a 'Beach Vacation' arc with a linked photo that is not tagged beach
C8_Witness ==
    /\ lastCall[1] = "detect"
    /\ \E r \in stories :
          /\ r.title = <<"Beach Vacation", "">>
          /\ \E l \in storyImages :
                l.story_id = r.id /\ "beach" \notin images[l.image_id].categories

\* every keyword of the rule table
RuleKeywords ==
    BeachKeywords \cup WeddingKeywords \cup CelebrationKeywords \cup FamilyKeywords
        \cup OutdoorKeywords \cup HolidayKeywords
        \cup {category_patterns[k][1] : k \in DOMAIN category_patterns}

\* no category of a photo of the pass's chapter is a keyword of the rule table
NoKeywordInPass ==
    \A i \in ChapterQueryPhotos(PassChapter(lastCall'), images) :
        images[i].categories \cap RuleKeywords = {}

\* some photo of the pass's chapter has a category
SomeCategoryInPass ==
    \E i \in ChapterQueryPhotos(PassChapter(lastCall'), images) : images[i].categories # {}

\* C9 as stated: for a single burst without life events and locations whose
\* categories match no keyword of the rule table, the pass creates exactly one
\* arc, the generic '<Month> Moments' arc of the unified detector, and no
\* time_cluster arc, whatever the span.
C9_GenericMomentsArc ==
    [][(SingleBurstPass /\ NoKeywordInPass) =>
          /\ Cardinality(NewStories) = 1
          /\ \A r \in NewStories :
                /\ r.generation_source = "unified_ai_pattern"
                /\ r.title = <<"Moments", MonthName(r.start_date)>>]_vars

\* C9 amended: under the same premise the pass creates exactly one arc, it comes
\* from the unified detector and no time_cluster arc is created; the arc is the
\* generic '<Month> Moments' arc when the photos carry no category at all or the
\* span is under 3 days, and the '<Month> Trip' arc of category trip when they
\* carry categories and the span is 3 days or more.
C9_GenericMomentsArcUnlessLongSpan ==
    [][(SingleBurstPass /\ NoKeywordInPass) =>
          /\ Cardinality(NewStories) = 1
          /\ \A r \in NewStories :
                /\ r.generation_source = "unified_ai_pattern"
                /\ IF SomeCategoryInPass /\ PassSpanDays >= 3
                   THEN /\ r.title = <<"Trip", MonthName(r.start_date)>>
                        /\ r.arc_type = "trip"
                   ELSE /\ r.title = <<"Moments", MonthName(r.start_date)>>
                        /\ r.arc_type = "moments"]_vars

\* a generic 'Moments' arc made from photos that carry categories
C9_Witness ==
    /\ lastCall[1] = "detect"
    /\ \E r \in stories :
          /\ r.title[1] = "Moments"
          /\ r.generation_source = "unified_ai_pattern"
          /\ r.story_metadata.categories # {}

(***************************************************************************)
(* Properties of pattern detection.                                        *)
(***************************************************************************)
DatedImages == {i \in ImageIds : images[i].capture_date # NULL}

\* the dated photos captured on month m, day d
CapturedOn(m, d) ==
    {i \in DatedImages : Month(images[i].capture_date) = m
                            /\ Day(images[i].capture_date) = d}

\* at least 2 dated photos share (m, d) across at least 2 years
SharedAcrossYears(m, d) ==
    /\ Cardinality(CapturedOn(m, d)) >= 2
    /\ Cardinality({Year(images[i].capture_date) : i \in CapturedOn(m, d)}) >= 2

\* the annual patterns a step creates for (m, d)
NewAnnual(m, d) ==
    {p \in patterns' \ patterns : p.frequency = "annual" /\ p.month = m /\ p.day = d}

\* a run creates for every (month, day) one annual pattern if the day is shared
\* across years and none otherwise, links the photos of that day to it and gives
\* it the confidence min(0.95, 0.7 + 0.1 * count)
AnnualPatternsAsShared ==
    \A m \in 1..12, d \in 1..31 :
        /\ Cardinality(NewAnnual(m, d)) = IF SharedAcrossYears(m, d) THEN 1 ELSE 0
        /\ \A p \in NewAnnual(m, d) :
              /\ {l[2] : l \in {x \in patternImages' \ patternImages : x[1] = p.id}}
                    = CapturedOn(m, d)
              /\ p.confidence_score
                    = Min2(9500, 7000 + 1000 * Cardinality(CapturedOn(m, d)))

\* C10 as stated: one run of temporal pattern detection creates an annual pattern
\* for a (month, day) exactly when at least 2 dated photos share it across at
\* least 2 years, one per such day, linked to all those photos, with confidence
\* min(0.95, 0.7 + 0.1 * count).
C10_AnnualPatternPerSharedDay ==
    [][lastCall'[1] = "detect_patterns" => AnnualPatternsAsShared]_vars

\* C10 amended: the same holds when the user has at least 3 dated photos; with
\* fewer than 3 dated photos the run creates no pattern at all.
C10_AnnualPatternPerSharedDayFromThreeDated ==
    [][lastCall'[1] = "detect_patterns" =>
          IF Cardinality(DatedImages) >= 3
          THEN AnnualPatternsAsShared
          ELSE patterns' = patterns]_vars

\* 4 photos on 5 March across 3 years: one annual pattern with confidence 0.95
C10_Witness ==
    /\ lastCall[1] = "detect_patterns"
    /\ \E p \in patterns :
          /\ p.frequency = "annual"
          /\ p.confidence_score = 9500
          /\ Cardinality({l \in patternImages : l[1] = p.id}) = 4
          /\ Cardinality(Range(p.years)) = 3

(***************************************************************************)
(* Properties of the stored arcs and of failures in a pass.                *)
(***************************************************************************)
\* C11: every arc produced by detect_story_arcs_for_chapter has
\* end_date >= start_date.
C11_ArcEndNotBeforeStart ==
    \A r \in stories : Stamp(r.end_date) >= Stamp(r.start_date)

\* an arc that ends after it starts
C11_Witness ==
    \E r \in stories : Stamp(r.end_date) > Stamp(r.start_date)

\* C12: every photo linked to an arc that is not a unified-pattern arc has a
\* capture date inside the arc's [start_date, end_date].
C12_LinkedPhotosInsideArcRange ==
    \A r \in stories :
        r.generation_source # "unified_ai_pattern" =>
            \A l \in storyImages :
                l.story_id = r.id =>
                    /\ images[l.image_id].capture_date # NULL
                    /\ Stamp(images[l.image_id].capture_date) >= Stamp(r.start_date)
                    /\ Stamp(images[l.image_id].capture_date) <= Stamp(r.end_date)

\* C13: when a sub-detector fails inside detect_story_arcs_for_chapter the call
\* still returns normally, and the life-event arcs of the chapter are persisted.
C13_SubDetectorFailureIsCaught ==
    [][lastCall'[1] = "detect" =>
          /\ ret'[1] = "ok"
          /\ \A e \in DOMAIN lifeEvents :
                (/\ InChapterWindow(lifeEvents[e].event_date, PassChapter(lastCall'))
                 /\ EventPhotos(e) # {})
                   => \E r \in NewStories : r.story_metadata.life_event_id = <<e>>]_vars

\* C14: a failure while the endpoint processes one chapter does not abort the
\* batch: every chapter of the batch whose own pass does not fail (none of its
\* photos has a location) has its detection pass completed.
C14_BatchSurvivesChapterFailure ==
    [][lastCall'[1] = "generate_chapters" =>
          \A c \in chapters' :
              (\A i \in ChapterQueryPhotos(c, images') : ~images'[i].location)
                 => c.id \in Range(ret'[2])]_vars

(***************************************************************************)
(* Properties of chapter generation.                                       *)
(***************************************************************************)
\* C15: generate_chapters_for_user and detect_story_arcs_for_chapter leave every
\* stored photo attribute as it was; a null capture date stays null.
C15_PhotosAreReadOnly ==
    [][lastCall'[1] \in {"generate", "detect"} => images' = images]_vars

\* the age at capture: the difference of the years, less one when the capture
\* (month, day) precedes the birth (month, day)
AgeAtCapture(i) ==
    LET at == images[i].capture_date
        before == <<Month(at), Day(at)>> \in
                     {<<m, d>> \in (1..12) \X (1..31) :
                         m < Month(birth_date)
                            \/ (m = Month(birth_date) /\ d < Day(birth_date))}
    IN  Year(at) - Year(birth_date) - (IF before THEN 1 ELSE 0)

\* C16: in age-based mode every dated photo of age >= 0 is in exactly one
\* chapter, whose band holds the age, any age >= 66 being in the last band
\* (age_start 66); every band has at most one chapter and no chapter is empty.
C16_EveryAgeInOneBand ==
    (lastCall[1] = "generate" /\ birth_date # NULL) =>
        /\ \A i \in ImageIds :
              (images[i].capture_date # NULL /\ AgeAtCapture(i) >= 0) =>
                  /\ Cardinality({c \in chapters : i \in AssignedTo(c)}) = 1
                  /\ \A c \in chapters :
                        i \in AssignedTo(c) =>
                            /\ c.age_start[1] <= AgeAtCapture(i)
                            /\ IF AgeAtCapture(i) >= 66
                               THEN c.age_start = <<66>>
                               ELSE AgeAtCapture(i) <= c.age_end[1]
        /\ \A c, d \in chapters : c.age_start = d.age_start => c = d
        /\ \A c \in chapters : AssignedTo(c) # {}

\* the capture years of the dated photos
CaptureYears == {Year(images[i].capture_date) :
                    i \in {j \in ImageIds : images[j].capture_date # NULL}}

\* every step between consecutive distinct capture years from y1 up to y2 is 1
YearsLinked(y1, y2) ==
    \A y \in CaptureYears : (y1 < y /\ y <= y2) => (y - 1) \in CaptureYears

\* C17: in year-based mode two dated photos share a chapter exactly when the
\* capture years between theirs are linked by steps of at most 1; a chapter
\* runs from its smallest to its largest member year, chapters are at least 2
\* years apart, and the photo counts add up to the dated photos.
C17_YearChaptersMergeAdjacentYears ==
    (lastCall[1] = "generate" /\ birth_date = NULL) =>
        LET dated == {i \in ImageIds : images[i].capture_date # NULL}
            yr(i) == Year(images[i].capture_date)
        IN  /\ \A i, j \in dated :
                  (\E c \in chapters : {i, j} \subseteq AssignedTo(c))
                     <=> (IF yr(i) <= yr(j) THEN YearsLinked(yr(i), yr(j))
                                            ELSE YearsLinked(yr(j), yr(i)))
            /\ \A c \in chapters :
                  /\ c.year_start = SetMin({yr(i) : i \in AssignedTo(c)})
                  /\ c.year_end = SetMax({yr(i) : i \in AssignedTo(c)})
                  /\ c.photo_count = Cardinality(AssignedTo(c))
            /\ \A c, d \in chapters :
                  c # d => /\ AssignedTo(c) \cap AssignedTo(d) = {}
                           /\ \/ c.year_end + 2 <= d.year_start
                              \/ d.year_end + 2 <= c.year_start
            /\ UNION {AssignedTo(c) : c \in chapters} = dated

\* a chapter of two merged years next to a chapter two years later
C17_Witness ==
    /\ lastCall[1] = "generate"
    /\ birth_date = NULL
    /\ \E c, d \in chapters : c.year_start < c.year_end /\ c.year_end + 2 = d.year_start

\* the labels most frequent among the rows flagged dominant of the photos `ids`
MostFrequentDominant(ids, imgs) ==
    LET cnt(n) == Cardinality({i \in ids : [name |-> n, dominant |-> TRUE]
                                              \in imgs[i].emotions})
        names  == {n \in {"happy", "sad"} : cnt(n) > 0}
    IN  {n \in names : \A o \in names : cnt(o) <= cnt(n)}

\* C18: the dominant emotion of a generated chapter is a most frequent label
\* among the rows flagged dominant of its photos (none when there is no such
\* row), and a regeneration over the same photos gives every chapter the
\* dominant emotion it had before.
C18_DominantEmotionDeterministic ==
    [][lastCall'[1] = "generate" =>
          \A c \in chapters' :
              LET best == MostFrequentDominant(ChapterQueryPhotos(c, images'), images')
              IN  /\ IF best = {} THEN c.dominant_emotion = NULL
                     ELSE /\ c.dominant_emotion # NULL
                          /\ c.dominant_emotion[1] \in best
                  /\ \A o \in chapters :
                        (o.year_start = c.year_start /\ o.year_end = c.year_end)
                           => o.dominant_emotion = c.dominant_emotion]_vars

\* what a pattern row says apart from its id, with the photos linked to it
PatternContent(p, links) ==
    <<[p EXCEPT !.id = 0], {l[2] : l \in {x \in links : x[1] = p.id}}>>

\* the stored patterns that say the same as p and link the same photos
CopiesOf(c, ps, links) == {q \in ps : PatternContent(q, links) = c}

PatternContents(ps, links) == {PatternContent(p, links) : p \in ps}

\* C19: pattern detection is additive. A run keeps every stored pattern and
\* link; on a database that already holds patterns it adds exactly one more
\* copy of each of them and nothing else, so k runs leave k copies; on a
\* database without patterns (at the start or after delete-all) it leaves
\* exactly one copy of each pattern it finds. Delete-all leaves no pattern and
\* no link.
C19_PatternDetectionIsAdditive ==
    [][/\ lastCall'[1] = "detect_patterns" =>
            /\ patterns \subseteq patterns'
            /\ patternImages \subseteq patternImages'
            /\ patterns # {} =>
                  PatternContents(patterns', patternImages')
                     = PatternContents(patterns, patternImages)
            /\ \A c \in PatternContents(patterns', patternImages') :
                  Cardinality(CopiesOf(c, patterns', patternImages'))
                     = Cardinality(CopiesOf(c, patterns, patternImages)) + 1
       /\ lastCall'[1] = "delete_all_patterns" =>
            patterns' = {} /\ patternImages' = {}]_vars

\* patterns were deleted, and two runs since then left two copies of a pattern
C19_Witness ==
    /\ lastCall[1] = "detect_patterns"
    /\ nextPatternId > Cardinality(patterns) + 1
    /\ \E p \in patterns :
          Cardinality(CopiesOf(PatternContent(p, patternImages), patterns,
                               patternImages)) = 2

\* C20: detection only appends, so a second pass over an unchanged chapter
\* stores every arc again; the chapter-generation endpoint called with
\* force_regenerate = false on existing chapters therefore leaves no arc stored
\* twice: it keeps all stored arcs and no two stored arcs differ in their id
\* alone.
C20_EndpointDoesNotRepeatDetection ==
    [][(lastCall' = <<"generate_chapters", FALSE>> /\ chapters # {}) =>
          /\ stories \subseteq stories'
          /\ \A r, q \in stories' :
                [r EXCEPT !.id = 0] = [q EXCEPT !.id = 0] => r.id = q.id]_vars

\* C21: while a request of the chapter-generation endpoint is in its detection
\* loop every chapter it got back is a committed row, and when the pass of a
\* chapter starts, the arcs every earlier pass of the request added and their
\* photo links are committed rows.
C21_CommitsOrderedInBatch ==
    \A p \in DOMAIN running :
        (running[p].op = "generate_chapters"
            /\ running[p].pc \in {"detect", "commit_arcs", "commit_links"}) =>
           /\ \A j \in DOMAIN running[p].returned :
                 \E c \in chapters : c.id = running[p].returned[j]
           /\ \A j \in DOMAIN running[p].detected :
                 j < running[p].k =>
                    /\ running[p].detected[j] \subseteq stories
                    /\ ArcLinks(running[p].detected[j], images) \subseteq storyImages

\* the pass of the second chapter starts after the first pass added an arc
C21_Witness ==
    \E p \in DOMAIN running :
        /\ running[p].op = "generate_chapters"
        /\ running[p].pc = "detect"
        /\ running[p].k = 2
        /\ running[p].detected[1] # {}
        /\ \E l \in storyImages : \E r \in running[p].detected[1] : l.story_id = r.id

\* two stored chapters that differ in their id alone
DuplicatedChapters ==
    \E c1, c2 \in chapters : c1.id # c2.id /\ [c1 EXCEPT !.id = 0] = [c2 EXCEPT !.id = 0]

\* no call of generate_chapters_for_user so far began while another was in flight
Serialized == \A p \in DOMAIN running : running[p].serial

\* C22: as long as the invocations of generate_chapters_for_user for the user
\* are serialized no chapter is stored twice; a duplicated chapter set is
\* reachable only when invocations interleave, and then it is reachable.
C22_DuplicatesOnlyWhenInterleaved == DuplicatedChapters => ~Serialized

\* two interleaved invocations have both finished and left every chapter twice
C22_Witness ==
    /\ ~Serialized
    /\ DuplicatedChapters
    /\ \A p \in Callers : p \in DOMAIN running /\ running[p].pc = "done"

\* task t was sent with an image id that is not stored
MissingImageTask(t) ==
    /\ t \in DOMAIN running
    /\ running[t].op = "classify_image_task"
    /\ running[t].image_id \notin ImageIds

\* C23: classify_image_task sent with an image id that does not exist ends in
\* FAILURE with the error 'Image <id> not found': it never reports success, it
\* does not stay pending or processing, its session holds no row after the
\* rollback, and no step of it writes a Category or an ImageCategory row.
C23_MissingImageTaskFails ==
    /\ [](\A t \in TaskIds :
             MissingImageTask(t) =>
                /\ running[t].state # "SUCCESS"
                /\ running[t].state = "FAILURE" =>
                      /\ running[t].info = <<"Image not found", running[t].image_id>>
                      /\ running[t].session = {})
    /\ [][\A t \in TaskIds :
             MissingImageTask(t) =>
                /\ categoryTable' = categoryTable
                /\ \A i \in ImageIds : images'[i].categories = images[i].categories]_vars
    /\ \A t \in TaskIds :
          (MissingImageTask(t) /\ running[t].state = "PENDING")
             ~> (MissingImageTask(t) /\ running[t].state = "FAILURE")

\* a task for a missing image has failed next to a stored, classified image
C23_Witness ==
    \E t \in TaskIds :
        /\ MissingImageTask(t)
        /\ running[t].state = "FAILURE"
        /\ running[t].info = <<"Image not found", running[t].image_id>>
        /\ categoryTable # {}

\* the owner's photos captured between the start and the end of arc r
OwnerPhotosInRange(r) ==
    {i \in ImageIds :
        /\ images[i].capture_date # NULL
        /\ Stamp(images[i].capture_date) >= Stamp(r.start_date)
        /\ Stamp(images[i].capture_date) <= Stamp(r.end_date)}

\* C24: the photos a pass links to an arc it created follow the arc's source: a
\* life_event arc gets exactly the photos linked to its life event, a
\* unified-pattern arc exactly the photos of its recorded photo_ids, every other
\* arc all photos of the owner captured inside its [start_date, end_date]; so a
\* photo inside the ranges of two such sibling arcs is linked to both.
C24_PhotosAttachedBySource ==
    [][lastCall'[1] = "detect" =>
          /\ \A r \in NewStories :
                LinkedTo(r) =
                   IF r.generation_source = "life_event"
                   THEN EventPhotos(r.story_metadata.life_event_id[1])
                   ELSE IF r.generation_source = "unified_ai_pattern"
                   THEN Range(r.story_metadata.photo_ids)
                   ELSE OwnerPhotosInRange(r)
          /\ \A r, q \in NewStories :
                ({r.generation_source, q.generation_source}
                    \cap {"life_event", "unified_ai_pattern"} = {}) =>
                   OwnerPhotosInRange(r) \cap OwnerPhotosInRange(q)
                      \subseteq LinkedTo(r) \cap LinkedTo(q)]_vars

\* a pass linked one photo to its life-event arc and that photo, with four
\* others of its date range, to its fallback arc
C24_Witness ==
    /\ lastCall[1] = "detect"
    /\ \E r, q \in stories :
          /\ r.generation_source = "life_event"
          /\ q.generation_source = "time_cluster"
          /\ Cardinality({l \in storyImages : l.story_id = r.id}) = 1
          /\ Cardinality({l \in storyImages : l.story_id = q.id}) = 5
          /\ \E l, n \in storyImages :
                l.story_id = r.id /\ n.story_id = q.id /\ l.image_id = n.image_id

\* the geotagged photos of the pass's chapter; they are photos of one venue
GeotaggedInPass ==
    {i \in ChapterQueryPhotos(PassChapter(lastCall'), images) : images[i].location}

\* whole days between the earliest and the latest photo of S
SpanDays(S) ==
    LET stamps == {Stamp(images[i].capture_date) : i \in S}
    IN  (SetMax(stamps) - SetMin(stamps)) \div 24

\* C25: a pass creates a trip arc for the location cluster of the chapter's
\* geotagged photos exactly when the cluster has at least 5 photos and spans at
\* least 2 days; the arc counts the photos of the cluster.
C25_TripArcForLocationCluster ==
    [][lastCall'[1] = "detect" =>
          LET trips == {r \in NewStories : r.generation_source = "trip_cluster"}
          IN  IF Cardinality(GeotaggedInPass) >= 5 /\ SpanDays(GeotaggedInPass) >= 2
              THEN /\ Cardinality(trips) = 1
                   /\ \A r \in trips : r.photo_count = Cardinality(GeotaggedInPass)
              ELSE trips = {}]_vars

\* S is a burst of the photos `all`: at least 3 photos, consecutive gaps of at
\* most 30 whole days, and no further photo can join
IsBurst(S, all) ==
    /\ Cardinality(S) >= 3
    /\ AllGapsWithin(SortByCapture(S, images), 30, images)
    /\ \A i \in all \ S : ~AllGapsWithin(SortByCapture(S \cup {i}, images), 30, images)

\* C26: a pass in which the unified detector runs creates exactly one unified
\* arc for every burst of the chapter's photos and no other: the photo_ids of
\* an arc are the ids of a burst, each once, its photo_count is the size of the
\* burst, its start and end dates are the earliest and the latest capture date
\* of the burst, and different arcs have disjoint photos.
C26_OneUnifiedArcPerBurst ==
    [][(lastCall'[1] = "detect" /\ ~lastCall'[2] /\ ret'[1] = "ok") =>
          \E photos \in {ChapterQueryPhotos(PassChapter(lastCall'), images)} :
          \E unified \in {{r \in NewStories : r.generation_source = "unified_ai_pattern"}} :
              /\ \A r \in unified :
                    \E S \in {Range(r.story_metadata.photo_ids)} :
                       /\ S \subseteq photos
                       /\ IsBurst(S, photos)
                       /\ Len(r.story_metadata.photo_ids) = Cardinality(S)
                       /\ r.photo_count = Cardinality(S)
                       /\ \A i \in S :
                             /\ Stamp(r.start_date) <= Stamp(images[i].capture_date)
                             /\ Stamp(images[i].capture_date) <= Stamp(r.end_date)
                       /\ \E i, j \in S : /\ images[i].capture_date = r.start_date
                                          /\ images[j].capture_date = r.end_date
              /\ \A r, q \in unified :
                    r # q => Range(r.story_metadata.photo_ids)
                                \cap Range(q.story_metadata.photo_ids) = {}
              /\ \A S \in SUBSET photos :
                    IsBurst(S, photos) =>
                       Cardinality({r \in unified :
                                       Range(r.story_metadata.photo_ids) = S}) = 1]_vars

\* one pass made two unified arcs from two bursts, the first with a gap of 30.5
\* days inside it
C26_Witness ==
    /\ lastCall[1] = "detect"
    /\ \E r, q \in stories :
          /\ r # q
          /\ r.generation_source = "unified_ai_pattern"
          /\ q.generation_source = "unified_ai_pattern"
          /\ r.start_date # r.end_date
          /\ Range(r.story_metadata.photo_ids) \cap Range(q.story_metadata.photo_ids) = {}

\* C27: the unified arc of a burst whose categories match no keyword of the
\* rules before the outdoor rule, hold one of outdoor, nature and hiking, and
\* whose emotions hold happy or excited is the 'Outdoor Adventure' arc of
\* category trip, whatever the span of the burst.
C27_OutdoorAdventureRule ==
    [][(lastCall'[1] = "detect" /\ ~lastCall'[2]) =>
          \A r \in NewStories :
              (/\ r.generation_source = "unified_ai_pattern"
               /\ r.story_metadata.categories
                     \cap (BeachKeywords \cup WeddingKeywords \cup CelebrationKeywords
                              \cup FamilyKeywords) = {}
               /\ r.story_metadata.categories \cap {"outdoor", "nature", "hiking"} # {}
               /\ r.story_metadata.emotions \cap {"happy", "excited"} # {})
                 => /\ r.title = <<"Outdoor Adventure", "">>
                    /\ r.arc_type = "trip"]_vars

(***************************************************************************)
(* C28: spatial patterns                                                   *)
(***************************************************************************)
\* the located images that share the coordinates of image i: photos of one spot
\* belong to one cluster whatever the order they are visited in
SameSpot(i) ==
    {j \in Range(located_images(images)) :
        /\ images[j].location[1].latitude = images[i].location[1].latitude
        /\ images[j].location[1].longitude = images[i].location[1].longitude}

\* the place strings that occur most often among the images of S
MostCommonPlaces(S) ==
    LET name(i) == images[i].location[1].location_name
        cnt(n)  == Cardinality({i \in S : name(i) = n})
    IN  {name(i) : i \in {i \in S : \A j \in S : cnt(name(i)) >= cnt(name(j))}}

\* C28: spatial detection over at least 3 geotagged photos groups the photos by
\* place whatever their order: every spot with at least 2 photos yields one new
\* spatial pattern that links the photos of the spot and is named after a most
\* common place string among its photos.
C28_SpatialPatternsOrderIndependent ==
    [][(/\ lastCall'[1] = "detect_patterns"
        /\ lastCall'[2]
        /\ Len(located_images(images)) >= MinLocatedImages) =>
          \A i \in Range(located_images(images)) :
             Cardinality(SameSpot(i)) >= 2 =>
                \E p \in patterns' \ patterns :
                   LET linked == {l[2] : l \in {m \in patternImages' : m[1] = p.id}}
                   IN  /\ p.pattern_type = "spatial"
                       /\ SameSpot(i) \subseteq linked
                       /\ p.location_name \in MostCommonPlaces(linked)]_vars

(***************************************************************************)
(* C29: photo links and photo_count                                        *)
(***************************************************************************)
\* C29: every arc a pass creates is linked to exactly the photos it was formed
\* from, so the number of its StoryImage links equals its stored photo_count: a
\* life-event arc has the photos of its event, a unified arc the photos of its
\* recorded photo_ids, and an arc of another source (fallback or trip) photos of
\* the pass's chapter.
C29_LinksMatchPhotoCount ==
    [][lastCall'[1] = "detect" =>
          \A r \in NewStories :
             /\ Cardinality({l \in NewLinks : l.story_id = r.id}) = r.photo_count
             /\ Cardinality(LinkedTo(r)) = r.photo_count
             /\ IF r.generation_source = "life_event"
                THEN LinkedTo(r) = EventPhotos(r.story_metadata.life_event_id[1])
                ELSE IF r.generation_source = "unified_ai_pattern"
                THEN LinkedTo(r) = Range(r.story_metadata.photo_ids)
                ELSE LinkedTo(r)
                        \subseteq ChapterQueryPhotos(PassChapter(lastCall'), images)]_vars

\* a pass stored a life-event arc counting 1 photo and a fallback arc counting
\* 5, each with as many links
C29_Witness ==
    /\ lastCall[1] = "detect"
    /\ \E r, q \in stories :
          /\ r.generation_source = "life_event" /\ r.photo_count = 1
          /\ q.generation_source = "time_cluster" /\ q.photo_count = 5
          /\ \A x \in {r, q} :
                Cardinality({l \in storyImages : l.story_id = x.id}) = x.photo_count

(***************************************************************************)
(* C30: sequence_order of the arcs of a pass                               *)
(***************************************************************************)
\* C30: the arcs a pass persists have pairwise distinct sequence_order values,
\* and ordering them by sequence_order gives the order of the returned list
\* (life-event arcs, trip arcs, unified arcs, fallback arcs), which is the order
\* of their ids.
C30_SequenceOrderFollowsPriority ==
    [][lastCall'[1] = "detect" =>
          \A r, q \in NewStories :
             /\ r # q => r.sequence_order # q.sequence_order
             /\ r.id < q.id => r.sequence_order < q.sequence_order]_vars

====
